---- MODULE Spec2Model ----
(***************************************************************************)
(* A model of the Atomicals Virtual Machine verifier:                      *)
(*   atomicalsconsensus_verify_script_avm  (script/atomicalsconsensus.cpp) *)
(*   VerifyScriptAvm, EvalScript           (script/interpreter.cpp)        *)
(*   ScriptStateContext                    (script/script_execution_context.cpp) *)
(*   CScript parsing, CScriptNum           (script/script.cpp, script_num.cpp)   *)
(*                                                                         *)
(* Stack elements and scripts are byte strings (sequences of 0..255).      *)
(* JSON object keys are hex strings, modelled as sequences of hex digits   *)
(* (0..15).  Machine integers are scaled: `int` has IntBits bits and       *)
(* `uint64_t` has U64Bits bits; the order int < uint64_t is kept.          *)
(***************************************************************************)
EXTENDS Integers, Sequences, FiniteSets, TLC

(***************************************************************************)
(* Bounds of the model.                                                    *)
(***************************************************************************)
\* width of `int` (the result type of CScriptNum::getint)
IntBits == 8
\* width of `uint64_t` (FT balances)
U64Bits == 16
\* number of instructions of an enumerated unlock script
MaxUnlockOps == 2
\* number of instructions of an enumerated verdict lock script
MaxLockOps == 2
\* number of token operations of an enumerated token lock script
MaxTokenOps == 2
\* number of instructions of an enumerated conditional lock script
MaxCondOps == 3
\* depth of the condition stacks of the specification of ConditionStack
MaxCondDepth == 6
\* elements under the index of the scripts of OP_PICK and OP_ROLL
MaxPickDepth == 2
\* elements under an opcode of the scripts that run an opcode on a short stack
MaxShortDepth == 2
\* instructions inside the branches of the scripts with a branch that is off
MaxSkipOps == 2
\* bytes of the operands of the scripts of OP_LSHIFT and OP_RSHIFT
MaxShiftLen == 2
\* the size limits of the key-value state and of the token balances, in
\* bytes: values a deployment chooses (constants.h), of the order of
\* 128 KiB there
StateLimitBytes == 4100
BalanceLimitBytes == 128
\* the limit of the length of a script in bytes, which is also the limit
\* of its number of non-push opcodes: script.h gives 1 000 000 for both
ScriptLimit == 4200

RECURSIVE Pow2(_)
Pow2(n) == IF n = 0 THEN 1 ELSE 2 * Pow2(n - 1)

INT_MAX == Pow2(IntBits - 1) - 1
INT_MIN == 0 - Pow2(IntBits - 1)
U64_MOD == Pow2(U64Bits)
U64_MAX == U64_MOD - 1

(***************************************************************************)
(* Program constants.                                                      *)
(***************************************************************************)
OP_0 == 0
OP_PUSHDATA1 == 76
OP_PUSHDATA2 == 77
OP_PUSHDATA4 == 78
OP_1NEGATE == 79
OP_RESERVED == 80
OP_1 == 81
OP_16 == 96
OP_NOP == 97
OP_IF == 99
OP_NOTIF == 100
OP_ELSE == 103
OP_ENDIF == 104
OP_VERIFY == 105
OP_RETURN == 106
OP_TOALTSTACK == 107
OP_FROMALTSTACK == 108
OP_3DUP == 111
OP_DROP == 117
OP_PICK == 121
OP_ROLL == 122
OP_DUP == 118
OP_EQUAL == 135
OP_EQUALVERIFY == 136
OP_2MUL == 141
OP_LSHIFT == 152
OP_RSHIFT == 153
OP_2DIV == 142
OP_CHECKAUTHSIG == 192
OP_CHECKAUTHSIGVERIFY == 193
OP_NFT_PUT == 209
OP_FT_BALANCE_ADD == 211
OP_KV_EXISTS == 237
OP_KV_GET == 239
OP_KV_PUT == 240
OP_KV_DELETE == 241
OP_FT_WITHDRAW == 242
OP_NFT_WITHDRAW == 243
OP_FT_BALANCE == 244
OP_FT_COUNT == 246
OP_FT_ITEM == 247
OP_NFT_EXISTS == 248
OP_NFT_COUNT == 249
OP_NFT_ITEM == 250
OP_GETBLOCKINFO == 251
OP_DECODEBLOCKINFO == 252
OP_HASH_FN == 253
INVALIDOPCODE == 255

MAX_SCRIPT_ELEMENT_SIZE == 4000
MAX_OPS_PER_SCRIPT == ScriptLimit
\* a length limit above the limit of non-push opcodes
MAX_SCRIPT_SIZEAboveOps == 2 * ScriptLimit
MAX_SCRIPT_SIZE == ScriptLimit
MAX_STACK_SIZE == 1000
MAXIMUM_ITEM_SIZE == 100000
ATOMICAL_REF_SIZE == 36
maxStateKeySize == 1024
MAX_STATE_FINAL_BYTES == StateLimitBytes
MAX_STATE_UPDATE_BYTES == StateLimitBytes
MAX_BALANCES_BYTES == BalanceLimitBytes
MAX_BALANCES_UPDATE_BYTES == BalanceLimitBytes

(***************************************************************************)
(* Byte strings, maps.                                                     *)
(***************************************************************************)
Min(S) == CHOOSE x \in S : \A y \in S : x <= y

\* the n bytes of s at 0-based offsets from .. from+n-1
SubBytes(s, from, n) == [i \in 1..n |-> s[from + i]]

EmptyMap == [x \in {} |-> 0]

MapPut(m, k, v) == [x \in (DOMAIN m) \cup {k} |-> IF x = k THEN v ELSE m[x]]

MapErase(m, k) == [x \in (DOMAIN m) \ {k} |-> m[x]]

\* a < b for two strings, compared from 1-based position i on
RECURSIVE LexLessFrom(_, _, _)
LexLessFrom(a, b, i) ==
    IF i > Len(a) THEN i <= Len(b)
    ELSE IF i > Len(b) THEN FALSE
    ELSE IF a[i] # b[i] THEN a[i] < b[i]
    ELSE LexLessFrom(a, b, i + 1)

\* the keys of a JSON object, a std::map, in the order a walk gives them
RECURSIVE SortedKeys(_)
SortedKeys(S) ==
    IF S = {} THEN <<>>
    ELSE LET first == CHOOSE x \in S : \A y \in S : x = y \/ LexLessFrom(x, y, 1)
         IN  <<first>> \o SortedKeys(S \ {first})

\* util/strencodings.h HexStr: two hex digits per byte, high digit first
HexStr(bytes) ==
    [i \in 1..(2 * Len(bytes)) |->
        IF i % 2 = 1 THEN bytes[(i + 1) \div 2] \div 16
                     ELSE bytes[i \div 2] % 16]

\* uint288::GetHex: the key under which a token id is stored in the JSON maps
GetHex(blob) == HexStr(blob)

\* script_utils.h HexStrWith00Null: the empty byte string is written "00"
HexStrWith00Null(value) == IF Len(value) = 0 THEN <<0, 0>> ELSE HexStr(value)

\* util/strencodings.h ParseHex: one byte per pair of hex digits
ParseHex(str) == [i \in 1..(Len(str) \div 2) |-> 16 * str[2 * i - 1] + str[2 * i]]

\* script_utils.h isHexStr: lowercase hex digits, even length, at least 2
isHexStr(s) == Len(s) % 2 = 0 /\ Len(s) >= 2 /\ \A i \in 1..Len(s) : s[i] \in 0..15

\* atoi of a string of decimal digits
RECURSIVE atoi(_)
atoi(str) ==
    IF Len(str) = 0 THEN 0
    ELSE 10 * atoi(SubSeq(str, 1, Len(str) - 1)) + str[Len(str)]

(***************************************************************************)
(* Script parsing.                                                         *)
(***************************************************************************)
ReadLE16(s, p) == s[p + 1] + 256 * s[p + 2]

ReadLE32(s, p) == s[p + 1] + 256 * s[p + 2] + 65536 * s[p + 3] + 16777216 * s[p + 4]

\* GetScriptOp: read the instruction at 0-based offset pc.  Returns whether
\* it could be read, the offset after it, its opcode and its push payload.
GetScriptOp(script, pc) ==
    LET end == Len(script)
        fail(p) == [ok |-> FALSE, pc |-> p, opcode |-> INVALIDOPCODE, vch |-> <<>>]
    IN  IF pc >= end THEN fail(pc)
        ELSE
          LET opcode == script[pc + 1]
              pc1 == pc + 1
          IN  IF opcode <= OP_PUSHDATA4 THEN
                LET hdr ==
                      IF opcode < OP_PUSHDATA1 THEN
                          [ok |-> TRUE, nSize |-> opcode, pc |-> pc1]
                      ELSE IF opcode = OP_PUSHDATA1 THEN
                          IF end - pc1 < 1 THEN [ok |-> FALSE, nSize |-> 0, pc |-> pc1]
                          ELSE [ok |-> TRUE, nSize |-> script[pc1 + 1], pc |-> pc1 + 1]
                      ELSE IF opcode = OP_PUSHDATA2 THEN
                          IF end - pc1 < 2 THEN [ok |-> FALSE, nSize |-> 0, pc |-> pc1]
                          ELSE [ok |-> TRUE, nSize |-> ReadLE16(script, pc1), pc |-> pc1 + 2]
                      ELSE
                          IF end - pc1 < 4 THEN [ok |-> FALSE, nSize |-> 0, pc |-> pc1]
                          ELSE [ok |-> TRUE, nSize |-> ReadLE32(script, pc1), pc |-> pc1 + 4]
                IN  IF ~hdr.ok THEN fail(hdr.pc)
                    ELSE IF end - hdr.pc < hdr.nSize THEN fail(hdr.pc)
                    ELSE [ok |-> TRUE, pc |-> hdr.pc + hdr.nSize, opcode |-> opcode,
                          vch |-> SubBytes(script, hdr.pc, hdr.nSize)]
              ELSE [ok |-> TRUE, pc |-> pc1, opcode |-> opcode, vch |-> <<>>]

RECURSIVE IsPushOnlyFrom(_, _)
IsPushOnlyFrom(script, pc) ==
    IF pc >= Len(script) THEN TRUE
    ELSE LET op == GetScriptOp(script, pc)
         IN  IF ~op.ok THEN FALSE
             ELSE IF op.opcode > OP_16 THEN FALSE
             ELSE IsPushOnlyFrom(script, op.pc)

\* IsPushOnly that looks at the first instruction only
IsPushOnlyFirstOp(script) ==
    IF Len(script) = 0 THEN TRUE
    ELSE LET op == GetScriptOp(script, 0)
         IN  op.ok /\ op.opcode <= OP_16

IsPushOnly(script) == IsPushOnlyFrom(script, 0)

CheckMinimalPush(data, opcode) ==
    IF Len(data) = 0 THEN opcode = OP_0
    ELSE IF Len(data) = 1 /\ data[1] >= 1 /\ data[1] <= 16 THEN FALSE
    ELSE IF Len(data) = 1 /\ data[1] = 129 THEN FALSE
    ELSE IF Len(data) <= 75 THEN opcode = Len(data)
    ELSE IF Len(data) <= 255 THEN opcode = OP_PUSHDATA1
    ELSE IF Len(data) <= 65535 THEN opcode = OP_PUSHDATA2
    ELSE TRUE

\* CScript::operator<<(const std::vector<uint8_t>&): a push of b
PushData(b) ==
    IF Len(b) < OP_PUSHDATA1 THEN <<Len(b)>> \o b
    ELSE IF Len(b) <= 255 THEN <<OP_PUSHDATA1, Len(b)>> \o b
    ELSE IF Len(b) <= 65535 THEN <<OP_PUSHDATA2, Len(b) % 256, Len(b) \div 256>> \o b
    ELSE <<OP_PUSHDATA4, Len(b) % 256, (Len(b) \div 256) % 256,
           (Len(b) \div 65536) % 256, Len(b) \div 16777216>> \o b

IsOpcodeDisabled(opcode) == opcode \in {OP_2MUL, OP_2DIV}

(***************************************************************************)
(* Stack values as booleans and numbers.                                   *)
(***************************************************************************)
CastToBool(vch) ==
    LET nz == {i \in 1..Len(vch) : vch[i] # 0}
    IN  IF nz = {} THEN FALSE
        ELSE ~(Min(nz) = Len(vch) /\ vch[Min(nz)] = 128)

\* avm::serialize: minimal little-endian sign-magnitude encoding of an integer
RECURSIVE SerializeAbs(_, _)
SerializeAbs(absoluteValue, negative) ==
    IF absoluteValue = 0 THEN <<>>
    ELSE LET tmp == absoluteValue % 256
             rest == absoluteValue \div 256
         IN  IF rest # 0 THEN <<tmp>> \o SerializeAbs(rest, negative)
             ELSE IF tmp >= 128 THEN <<tmp, IF negative THEN 128 ELSE 0>>
             ELSE <<IF negative THEN tmp + 128 ELSE tmp>>

serialize(value) ==
    IF value = 0 THEN <<>>
    ELSE SerializeAbs(IF value < 0 THEN 0 - value ELSE value, value < 0)

IsMinimallyEncoded(span, nMaxNumSize) ==
    LET size == Len(span)
    IN  IF size > nMaxNumSize THEN FALSE
        ELSE IF size > 0 /\ span[size] % 128 = 0
             THEN ~(size <= 1 \/ span[size - 1] < 128)
             ELSE TRUE

\* avm::bigint::deserialize: the sign bit is bit 7 of the last byte, the rest
\* is the little-endian magnitude.  A big integer is kept as sign and
\* magnitude bytes.
deserialize(s) ==
    [neg |-> s[Len(s)] >= 128,
     mag |-> [i \in 1..Len(s) |-> IF i = Len(s) THEN s[i] % 128 ELSE s[i]]]

\* CScriptNum(span, nMaxNumSize)
CScriptNum(span, nMaxNumSize) ==
    IF Len(span) > nMaxNumSize THEN [exc |-> "ScriptnumOverflowException"]
    ELSE IF ~IsMinimallyEncoded(span, nMaxNumSize)
         THEN [exc |-> "ScriptnumMinimalEncodingException"]
    ELSE IF Len(span) = 0 THEN [exc |-> "none", m_value |-> [neg |-> FALSE, mag |-> <<>>]]
    ELSE [exc |-> "none", m_value |-> deserialize(span)]

\* number of magnitude bytes up to the most significant non-zero one
RECURSIVE SigLen(_)
SigLen(mag) ==
    IF Len(mag) = 0 THEN 0
    ELSE IF mag[Len(mag)] # 0 THEN Len(mag)
    ELSE SigLen(SubBytes(mag, 0, Len(mag) - 1))

RECURSIVE MagValue(_)
MagValue(mag) ==
    IF Len(mag) = 0 THEN 0
    ELSE mag[1] + 256 * MagValue(SubBytes(mag, 1, Len(mag) - 1))

\* CScriptNum::getint on the big-integer alternative: saturates to int.
\* A magnitude of more than 3 significant bytes is at least 2^24 and so is
\* beyond INT_MAX and -INT_MIN; a smaller one is compared by value.
getint(n) ==
    IF SigLen(n.mag) > 3 THEN (IF n.neg THEN INT_MIN ELSE INT_MAX)
    ELSE LET v == IF n.neg THEN 0 - MagValue(SubBytes(n.mag, 0, SigLen(n.mag)))
                  ELSE MagValue(SubBytes(n.mag, 0, SigLen(n.mag)))
         IN  IF v > INT_MAX THEN INT_MAX
             ELSE IF v < INT_MIN THEN INT_MIN
             ELSE v

(***************************************************************************)
(* ScriptStateContext.  The context is a record:                           *)
(*   ftState, ftBalancesUpdates, ftStateIncoming  : hex key -> uint64      *)
(*   nftState, nftBalancesUpdates, nftStateIncoming : hex key -> bool      *)
(*   contractState, contractStateUpdates, contractStateDeletes :           *)
(*                                   hex keyspace -> (hex key -> value)    *)
(*   ftAddsSet, nftPutsSet       : sets of token ids                       *)
(*   ftWithdrawMap               : token id -> (output index -> amount)    *)
(*   nftWithdrawMap              : token id -> output index                *)
(* An operation that returns bool returns [ok, sc]: its result and the     *)
(* context it leaves behind.                                               *)
(***************************************************************************)
\* std::map::insert: an existing key keeps its value
MapInsert(m, k, v) == IF k \in DOMAIN m THEN m ELSE MapPut(m, k, v)

allowedFtBalanceAdd(sc, ftId) == ftId \notin sc.ftAddsSet

performFtBalanceAdd(sc, ftId, amount) ==
    IF amount <= 0 THEN [ok |-> FALSE, sc |-> sc]
    ELSE
      LET sc1 == [sc EXCEPT !.ftAddsSet = @ \cup {ftId}]
          ftIdStr == GetHex(ftId)
      IN  IF ftIdStr \notin DOMAIN sc1.ftStateIncoming THEN [ok |-> FALSE, sc |-> sc1]
          ELSE IF amount > sc1.ftStateIncoming[ftIdStr] THEN [ok |-> FALSE, sc |-> sc1]
          ELSE
            LET currentValue == IF ftIdStr \in DOMAIN sc1.ftState
                                THEN sc1.ftState[ftIdStr] ELSE 0
                \* uint64_t currentValue += amount
                sum == (currentValue + amount) % U64_MOD
            IN  [ok |-> TRUE,
                 sc |-> [sc1 EXCEPT !.ftState = MapPut(@, ftIdStr, sum),
                                    !.ftBalancesUpdates = MapPut(@, ftIdStr, sum)]]

contractFtBalanceAdd(sc, ftId) ==
    IF GetHex(ftId) \notin DOMAIN sc.ftStateIncoming THEN [ok |-> FALSE, sc |-> sc]
    ELSE IF ~allowedFtBalanceAdd(sc, ftId) THEN [ok |-> FALSE, sc |-> sc]
    ELSE performFtBalanceAdd(sc, ftId, sc.ftStateIncoming[GetHex(ftId)])

\* allowedNftPut that never refuses
allowedNftPutAlways(sc, nftId) == TRUE

allowedNftPut(sc, nftId) == nftId \notin sc.nftPutsSet

\* performNftPut that records the update and leaves the balance alone
performNftPutUpdateOnly(sc, nftId) ==
    LET sc1 == [sc EXCEPT !.nftPutsSet = @ \cup {nftId}]
        nftIdStr == GetHex(nftId)
    IN  IF nftIdStr \notin DOMAIN sc1.nftStateIncoming THEN [ok |-> FALSE, sc |-> sc1]
        ELSE [ok |-> TRUE,
              sc |-> [sc1 EXCEPT !.nftBalancesUpdates = MapPut(@, nftIdStr, TRUE)]]

performNftPut(sc, nftId) ==
    LET sc1 == [sc EXCEPT !.nftPutsSet = @ \cup {nftId}]
        nftIdStr == GetHex(nftId)
    IN  IF nftIdStr \notin DOMAIN sc1.nftStateIncoming THEN [ok |-> FALSE, sc |-> sc1]
        ELSE [ok |-> TRUE,
              sc |-> [sc1 EXCEPT !.nftState = MapPut(@, nftIdStr, TRUE),
                                 !.nftBalancesUpdates = MapPut(@, nftIdStr, TRUE)]]

\* contractNftPut also has an exceptional exit: threw names what it throws
contractNftPut(sc, nftId) ==
    IF GetHex(nftId) \notin DOMAIN sc.nftStateIncoming
    THEN [ok |-> FALSE, sc |-> sc, threw |-> "none"]
    ELSE IF ~allowedNftPut(sc, nftId) THEN [ok |-> FALSE, sc |-> sc, threw |-> "none"]
    ELSE IF ~sc.nftStateIncoming[GetHex(nftId)]
         THEN [ok |-> FALSE, sc |-> sc, threw |-> "StateValidationTokenNftBalanceFormatError*"]
    ELSE LET r == performNftPut(sc, nftId)
         IN  [ok |-> r.ok, sc |-> r.sc, threw |-> "none"]

\* contractWithdrawFt that records the balance before the withdrawal as
\* the update
contractWithdrawFtStaleUpdate(sc, ftId, index, withdrawAmount) ==
    IF withdrawAmount <= 0 THEN [ok |-> FALSE, sc |-> sc]
    ELSE
      LET ftIdStr == GetHex(ftId)
      IN  IF ftIdStr \notin DOMAIN sc.ftState THEN [ok |-> FALSE, sc |-> sc]
          ELSE
            LET availableBalance == sc.ftState[ftIdStr]
            IN  IF withdrawAmount > availableBalance THEN [ok |-> FALSE, sc |-> sc]
                ELSE
                  LET updatedBalance == availableBalance - withdrawAmount
                      mapper == IF ftId \in DOMAIN sc.ftWithdrawMap
                                THEN sc.ftWithdrawMap[ftId] ELSE EmptyMap
                  IN  [ok |-> TRUE,
                       sc |-> [sc EXCEPT
                          !.ftState = IF updatedBalance = 0 THEN MapErase(@, ftIdStr)
                                      ELSE MapPut(@, ftIdStr, updatedBalance),
                          !.ftBalancesUpdates = MapPut(@, ftIdStr, availableBalance),
                          !.ftWithdrawMap =
                              MapPut(@, ftId, MapInsert(mapper, index, withdrawAmount))]]

\* contractWithdrawFt that records the withdrawal before it tests the balance
contractWithdrawFtRecordsFirst(sc, ftId, index, withdrawAmount) ==
    IF withdrawAmount <= 0 THEN [ok |-> FALSE, sc |-> sc]
    ELSE
      LET ftIdStr == GetHex(ftId)
      IN  IF ftIdStr \notin DOMAIN sc.ftState THEN [ok |-> FALSE, sc |-> sc]
          ELSE
            LET availableBalance == sc.ftState[ftIdStr]
            IN  IF withdrawAmount > availableBalance
                THEN [ok |-> FALSE,
                      sc |-> [sc EXCEPT !.ftWithdrawMap =
                                 MapPut(@, ftId, MapPut(EmptyMap, index, withdrawAmount))]]
                ELSE
                  LET updatedBalance == availableBalance - withdrawAmount
                      mapper == IF ftId \in DOMAIN sc.ftWithdrawMap
                                THEN sc.ftWithdrawMap[ftId] ELSE EmptyMap
                  IN  [ok |-> TRUE,
                       sc |-> [sc EXCEPT
                          !.ftState = IF updatedBalance = 0 THEN MapErase(@, ftIdStr)
                                      ELSE MapPut(@, ftIdStr, updatedBalance),
                          !.ftBalancesUpdates = MapPut(@, ftIdStr, updatedBalance),
                          !.ftWithdrawMap =
                              MapPut(@, ftId, MapInsert(mapper, index, withdrawAmount))]]

contractWithdrawFt(sc, ftId, index, withdrawAmount) ==
    IF withdrawAmount <= 0 THEN [ok |-> FALSE, sc |-> sc]
    ELSE
      LET ftIdStr == GetHex(ftId)
      IN  IF ftIdStr \notin DOMAIN sc.ftState THEN [ok |-> FALSE, sc |-> sc]
          ELSE
            LET availableBalance == sc.ftState[ftIdStr]
            IN  IF withdrawAmount > availableBalance THEN [ok |-> FALSE, sc |-> sc]
                ELSE
                  LET updatedBalance == availableBalance - withdrawAmount
                      mapper == IF ftId \in DOMAIN sc.ftWithdrawMap
                                THEN sc.ftWithdrawMap[ftId] ELSE EmptyMap
                  IN  [ok |-> TRUE,
                       sc |-> [sc EXCEPT
                          !.ftState = IF updatedBalance = 0 THEN MapErase(@, ftIdStr)
                                      ELSE MapPut(@, ftIdStr, updatedBalance),
                          !.ftBalancesUpdates = MapPut(@, ftIdStr, updatedBalance),
                          !.ftWithdrawMap =
                              MapPut(@, ftId, MapInsert(mapper, index, withdrawAmount))]]

contractWithdrawNft(sc, nftId, index) ==
    LET nftIdStr == GetHex(nftId)
    IN  IF nftIdStr \notin DOMAIN sc.nftState THEN [ok |-> FALSE, sc |-> sc]
        ELSE [ok |-> TRUE,
              sc |-> [sc EXCEPT !.nftState = MapErase(@, nftIdStr),
                                !.nftBalancesUpdates = MapPut(@, nftIdStr, FALSE),
                                !.nftWithdrawMap = MapInsert(@, nftId, index)]]

\* ensureKeyspaceExists: the entity with the keyspace in it, empty if new
ensureKeyspaceExists(entity, keySpaceStr) ==
    IF keySpaceStr \in DOMAIN entity THEN entity
    ELSE MapPut(entity, keySpaceStr, EmptyMap)

\* contractStatePut that does not record the update
contractStatePutNoUpdate(sc, keySpace, keyName, value) ==
    LET keySpaceStr == HexStrWith00Null(keySpace)
        keyNameStr == HexStrWith00Null(keyName)
        valueStr == HexStrWith00Null(value)
        st == ensureKeyspaceExists(sc.contractState, keySpaceStr)
        up == ensureKeyspaceExists(sc.contractStateUpdates, keySpaceStr)
        de == ensureKeyspaceExists(sc.contractStateDeletes, keySpaceStr)
    IN  [sc EXCEPT
           !.contractState = MapPut(st, keySpaceStr, MapPut(st[keySpaceStr], keyNameStr, valueStr)),
           !.contractStateUpdates = up,
           !.contractStateDeletes =
               MapPut(de, keySpaceStr, MapErase(de[keySpaceStr], keyNameStr))]

contractStatePut(sc, keySpace, keyName, value) ==
    LET keySpaceStr == HexStrWith00Null(keySpace)
        keyNameStr == HexStrWith00Null(keyName)
        valueStr == HexStrWith00Null(value)
        st == ensureKeyspaceExists(sc.contractState, keySpaceStr)
        up == ensureKeyspaceExists(sc.contractStateUpdates, keySpaceStr)
        de == ensureKeyspaceExists(sc.contractStateDeletes, keySpaceStr)
    IN  [sc EXCEPT
           !.contractState = MapPut(st, keySpaceStr, MapPut(st[keySpaceStr], keyNameStr, valueStr)),
           !.contractStateUpdates =
               MapPut(up, keySpaceStr, MapPut(up[keySpaceStr], keyNameStr, valueStr)),
           !.contractStateDeletes =
               MapPut(de, keySpaceStr, MapErase(de[keySpaceStr], keyNameStr))]

\* contractStateDelete that leaves the entry in the updates
contractStateDeleteKeepsUpdate(sc, keySpace, keyName) ==
    LET keySpaceStr == HexStrWith00Null(keySpace)
        keyNameStr == HexStrWith00Null(keyName)
        st == ensureKeyspaceExists(sc.contractState, keySpaceStr)
        up == ensureKeyspaceExists(sc.contractStateUpdates, keySpaceStr)
        de == ensureKeyspaceExists(sc.contractStateDeletes, keySpaceStr)
    IN  [sc EXCEPT
           !.contractState = MapPut(st, keySpaceStr, MapErase(st[keySpaceStr], keyNameStr)),
           !.contractStateUpdates = up,
           !.contractStateDeletes =
               MapPut(de, keySpaceStr, MapPut(de[keySpaceStr], keyNameStr, TRUE))]

contractStateDelete(sc, keySpace, keyName) ==
    LET keySpaceStr == HexStrWith00Null(keySpace)
        keyNameStr == HexStrWith00Null(keyName)
        st == ensureKeyspaceExists(sc.contractState, keySpaceStr)
        up == ensureKeyspaceExists(sc.contractStateUpdates, keySpaceStr)
        de == ensureKeyspaceExists(sc.contractStateDeletes, keySpaceStr)
    IN  [sc EXCEPT
           !.contractState = MapPut(st, keySpaceStr, MapErase(st[keySpaceStr], keyNameStr)),
           !.contractStateUpdates =
               MapPut(up, keySpaceStr, MapErase(up[keySpaceStr], keyNameStr)),
           !.contractStateDeletes =
               MapPut(de, keySpaceStr, MapPut(de[keySpaceStr], keyNameStr, TRUE))]

\* contractStateGet: [ok, value]; the keys are looked up under HexStr
contractStateGet(sc, keySpace, keyName) ==
    IF HexStr(keySpace) \notin DOMAIN sc.contractState THEN [ok |-> FALSE, value |-> <<>>]
    ELSE LET keyspaceNode == sc.contractState[HexStr(keySpace)]
         IN  IF HexStr(keyName) \in DOMAIN keyspaceNode
             THEN [ok |-> TRUE, value |-> ParseHex(keyspaceNode[HexStr(keyName)])]
             ELSE [ok |-> FALSE, value |-> <<>>]

contractStateExists(sc, keySpace, keyName) ==
    /\ HexStr(keySpace) \in DOMAIN sc.contractState
    /\ HexStr(keyName) \in DOMAIN sc.contractState[HexStr(keySpace)]

\* contractFtBalance and contractFtBalanceIncoming, on _ftState and on
\* _ftStateIncoming
contractFtBalance(entity, ftId) ==
    IF GetHex(ftId) \notin DOMAIN entity THEN 0 ELSE entity[GetHex(ftId)]

\* contractNftExists and contractNftExistsIncoming, on _nftState and on
\* _nftStateIncoming
contractNftExists(entity, nftId) ==
    IF GetHex(nftId) \notin DOMAIN entity THEN FALSE ELSE entity[GetHex(nftId)]

\* getFtCount, getFtCountIncoming, getNftCount, getNftCountIncoming
getCount(entity) == Cardinality(DOMAIN entity)

\* uint288S: the token id a hex string names, the inverse of GetHex
uint288S(str) == ParseHex(str)

\* a walk from the last key of a JSON object to the first
ItemAtDescending(entity, index) ==
    LET keys == SortedKeys(DOMAIN entity)
    IN  IF index < Len(keys)
        THEN [ok |-> TRUE, tokenId |-> uint288S(keys[Len(keys) - index])]
        ELSE [ok |-> FALSE, tokenId |-> <<>>]

\* the walk of getFtItem and its three siblings: the key at position index,
\* from 0, of the begin()..end() walk of a JSON object
ItemAt(entity, index) ==
    LET keys == SortedKeys(DOMAIN entity)
    IN  IF index < Len(keys) THEN [ok |-> TRUE, tokenId |-> uint288S(keys[index + 1])]
        ELSE [ok |-> FALSE, tokenId |-> <<>>]

getFtItem(sc, index) == ItemAt(sc.ftState, index)

getFtItemIncoming(sc, index) == ItemAt(sc.ftStateIncoming, index)

getNftItem(sc, index) == ItemAt(sc.nftState, index)

getNftItemIncoming(sc, index) == ItemAt(sc.nftStateIncoming, index)

(***************************************************************************)
(* The external state: the block headers given with the call.  The JSON    *)
(* value has the keys "headers", a map from the decimal string of a height *)
(* to the hex string of a header, and "height"; the context keeps          *)
(*   external : [headers : height -> [header, height, headerHex],          *)
(*               currentHeight]                                            *)
(* A header is 80 bytes: nVersion, hashPrevBlock, hashMerkleRoot, nTime,   *)
(* nBits, nNonce.  The headers of this model have every 32-bit field below *)
(* 2^31, and an nBits whose low 24 bits are not zero and whose high byte   *)
(* is 28 to 31.                                                            *)
(***************************************************************************)
\* util/strencodings.h IsHex: hex digits, even length, not empty
IsHex(str) == Len(str) > 0 /\ Len(str) % 2 = 0 /\ \A i \in 1..Len(str) : str[i] \in 0..15

\* the CBlockHeader read from the first 80 bytes of data
CBlockHeader(data) ==
    [nVersion |-> ReadLE32(data, 0),
     hashPrevBlock |-> SubBytes(data, 4, 32),
     hashMerkleRoot |-> SubBytes(data, 36, 32),
     nTime |-> ReadLE32(data, 68),
     nBits |-> ReadLE32(data, 72),
     nNonce |-> ReadLE32(data, 76)]

\* DecodeHexBlockHeaderDup: false if the string is not hex or the stream
\* ends before the header does
DecodeHexBlockHeaderDup(hex_header) ==
    IF ~IsHex(hex_header) THEN [ok |-> FALSE, header |-> EmptyMap]
    ELSE IF Len(ParseHex(hex_header)) < 80 THEN [ok |-> FALSE, header |-> EmptyMap]
    ELSE [ok |-> TRUE, header |-> CBlockHeader(ParseHex(hex_header))]

\* the external state of a context made by the default constructor
NoExternal == [headers |-> EmptyMap, currentHeight |-> 0]

\* validateContractStateExternal: the exception thrown, "none" if none, and
\* the table made.  Of two keys that name one height the first one in the
\* order of the keys is kept.
validateContractStateExternal(contractStateExternalJson) ==
    LET j == contractStateExternalJson
        threw(e) == [threw |-> e, external |-> NoExternal]
    IN  IF "headers" \notin DOMAIN j THEN threw("HeaderKeyNotFoundError")
        ELSE IF "height" \notin DOMAIN j THEN threw("HeightKeyNotFoundError")
        ELSE IF j.height > 10000000 THEN threw("HeightInvalidError*")
        ELSE IF \E k \in DOMAIN j.headers : ~DecodeHexBlockHeaderDup(j.headers[k]).ok
             THEN threw("CurrentHeaderDecodeError")
        ELSE
          LET keys == SortedKeys(DOMAIN j.headers)
              heights == {atoi(k) : k \in DOMAIN j.headers}
              keyOf(h) == keys[Min({i \in 1..Len(keys) : atoi(keys[i]) = h})]
          IN  [threw |-> "none",
               external |->
                   [headers |->
                        [h \in heights |->
                            [header |-> DecodeHexBlockHeaderDup(j.headers[keyOf(h)]).header,
                             height |-> h,
                             headerHex |-> ParseHex(j.headers[keyOf(h)])]],
                    currentHeight |-> j.height]]

\* the height looked up: the current one for 0.  An int below 0 becomes a
\* uint32_t above the heights of this model; it is kept as it is.
revisedHeight(external, height) ==
    IF height = 0 THEN external.currentHeight ELSE height

isAllowedBlockInfoHeight(external, height) ==
    revisedHeight(external, height) \in DOMAIN external.headers

getBlockInfoByHeight(external, height) ==
    external.headers[revisedHeight(external, height)].header

\* 256 to the power n
RECURSIVE Pow256(_)
Pow256(n) == IF n <= 0 THEN 1 ELSE 256 * Pow256(n - 1)

\* getBlockInfoDifficulty and getCurrentBlockInfoDifficulty: 0xffff over the
\* low 24 bits of nBits, scaled by 256 for each unit of the high byte below
\* or above 29, rounded to the nearest integer
Difficulty(nBits) ==
    LET nShift == (nBits \div 16777216) % 256
        num == 65535 * Pow256(29 - nShift)
        den == (nBits % 16777216) * Pow256(nShift - 29)
    IN  (2 * num + den) \div (2 * den)

\* the bytes pushed for the field blockField, 0 to 6, of a header: a number
\* as CScriptNum(n).getvch()
BlockInfoField(header, blockField) ==
    CASE blockField = 0 -> serialize(header.nVersion)
      [] blockField = 1 -> header.hashPrevBlock
      [] blockField = 2 -> header.hashMerkleRoot
      [] blockField = 3 -> serialize(header.nTime)
      [] blockField = 4 -> serialize(header.nBits)
      [] blockField = 5 -> serialize(header.nNonce)
      [] blockField = 6 -> serialize(Difficulty(header.nBits))

\* the bytes pushed by OP_GETBLOCKINFO for a height that is allowed: the
\* fields of the header, the raw header, the height
CurrentBlockInfoField(external, height, blockField) ==
    CASE blockField <= 6 -> BlockInfoField(getBlockInfoByHeight(external, height), blockField)
      [] blockField = 7 -> external.headers[revisedHeight(external, height)].headerHex
      [] blockField = 8 -> serialize(revisedHeight(external, height))

\* ScriptStateContext::decodeHeader of a header of 80 bytes
decodeHeader(header) == DecodeHexBlockHeaderDup(HexStr(header)).header

(***************************************************************************)
(* StateValidation (script_utils.h).  A validation returns the name of the *)
(* exception it throws, "none" if it returns normally.  Every exception of *)
(* this class is thrown with `throw new`, that is as a pointer; the names  *)
(* carry a trailing * to say so.                                           *)
(***************************************************************************)
\* the sum of the values of a map
RECURSIVE SumMap(_)
SumMap(f) ==
    IF DOMAIN f = {} THEN 0
    ELSE LET k == CHOOSE x \in DOMAIN f : TRUE
         IN  f[k] + SumMap(MapErase(f, k))

\* the byte count of a two-level state object, or its format error
performValidateStateRestrictionsState(obj) ==
    LET inner(ks) == Len(ks) \div 2
                       + SumMap([k \in DOMAIN obj[ks] |->
                                    Len(k) \div 2 + Len(obj[ks][k]) \div 2])
        bad == \E ks \in DOMAIN obj :
                  \/ ~isHexStr(ks)
                  \/ DOMAIN obj[ks] = {}
                  \/ \E k \in DOMAIN obj[ks] : ~isHexStr(k) \/ ~isHexStr(obj[ks][k])
    IN  IF bad THEN [threw |-> "StateValidationStateFormatError*", byteCount |-> 0]
        ELSE [threw |-> "none", byteCount |-> SumMap([ks \in DOMAIN obj |-> inner(ks)])]

performValidateStateRestrictionsStateDeletes(obj) ==
    LET inner(ks) == Len(ks) \div 2 + SumMap([k \in DOMAIN obj[ks] |-> Len(k) \div 2])
        bad == \E ks \in DOMAIN obj :
                  \/ ~isHexStr(ks)
                  \/ DOMAIN obj[ks] = {}
                  \/ \E k \in DOMAIN obj[ks] : ~isHexStr(k) \/ ~obj[ks][k]
    IN  IF bad THEN [threw |-> "StateValidationStateDeleteFormatError*", byteCount |-> 0]
        ELSE [threw |-> "none", byteCount |-> SumMap([ks \in DOMAIN obj |-> inner(ks)])]

performValidateStateRestrictionsTokenFtBalances(obj, isAllowZeroBalance) ==
    LET g(k) == Len(k) \div 2 + 8
    IN  IF \E k \in DOMAIN obj : ~isHexStr(k)
        THEN [threw |-> "StateValidationTokenFtBalanceFormatError*", byteCount |-> 0]
        ELSE IF ~isAllowZeroBalance /\ \E k \in DOMAIN obj : obj[k] = 0
        THEN [threw |-> "StateValidationTokenFtBalanceZeroFormatError*", byteCount |-> 0]
        ELSE [threw |-> "none", byteCount |-> SumMap([k \in DOMAIN obj |-> g(k)])]

performValidateStateRestrictionsTokenNftBalances(obj, isAllowFalse) ==
    LET g(k) == Len(k) \div 2
    IN  IF \E k \in DOMAIN obj : ~isHexStr(k)
        THEN [threw |-> "StateValidationTokenNftBalanceFormatError*", byteCount |-> 0]
        ELSE IF ~isAllowFalse /\ \E k \in DOMAIN obj : ~obj[k]
        THEN [threw |-> "StateValidationTokenNftBalanceFormatError*", byteCount |-> 0]
        ELSE [threw |-> "none", byteCount |-> SumMap([k \in DOMAIN obj |-> g(k)])]

\* the checks in the order the code makes them; the first that throws wins
performValidateStateRestrictions(sc) ==
    LET st == performValidateStateRestrictionsState(sc.contractState)
        su == performValidateStateRestrictionsState(sc.contractStateUpdates)
        sd == performValidateStateRestrictionsStateDeletes(sc.contractStateDeletes)
        ft == performValidateStateRestrictionsTokenFtBalances(sc.ftState, FALSE)
        fu == performValidateStateRestrictionsTokenFtBalances(sc.ftBalancesUpdates, TRUE)
        fi == performValidateStateRestrictionsTokenFtBalances(sc.ftStateIncoming, FALSE)
        nt == performValidateStateRestrictionsTokenNftBalances(sc.nftState, FALSE)
        nu == performValidateStateRestrictionsTokenNftBalances(sc.nftBalancesUpdates, TRUE)
        ni == performValidateStateRestrictionsTokenNftBalances(sc.nftStateIncoming, FALSE)
    IN  IF st.threw # "none" THEN st.threw
        ELSE IF st.byteCount > MAX_STATE_FINAL_BYTES THEN "StateValidationStateSizeLimitError*"
        ELSE IF su.threw # "none" THEN su.threw
        ELSE IF su.byteCount > MAX_STATE_UPDATE_BYTES
             THEN "StateValidationStateUpdateSizeLimitError*"
        ELSE IF sd.threw # "none" THEN sd.threw
        ELSE IF sd.byteCount > MAX_STATE_UPDATE_BYTES
             THEN "StateValidationStateDeleteSizeLimitError*"
        ELSE IF ft.threw # "none" THEN ft.threw
        ELSE IF ft.byteCount > MAX_BALANCES_BYTES
             THEN "StateValidationTokenFtBalanceSizeLimitError*"
        ELSE IF fu.threw # "none" THEN fu.threw
        ELSE IF fu.byteCount > MAX_BALANCES_UPDATE_BYTES
             THEN "StateValidationTokenFtBalanceUpdateSizeLimitError*"
        ELSE IF fi.threw # "none" THEN fi.threw
        ELSE IF nt.threw # "none" THEN nt.threw
        ELSE IF nt.byteCount > MAX_BALANCES_BYTES
             THEN "StateValidationTokenNftBalanceSizeLimitError*"
        ELSE IF nu.threw # "none" THEN nu.threw
        ELSE IF nu.byteCount > MAX_BALANCES_UPDATE_BYTES
             THEN "StateValidationTokenNftBalanceUpdateSizeLimitError*"
        ELSE ni.threw

\* a final validation that accepts every state
validateFinalStateRestrictionsAccepts(sc) == "none"

validateFinalStateRestrictions(sc) == performValidateStateRestrictions(sc)

(***************************************************************************)
(* Cleanup before the results are emitted.  Each cleanup walks a JSON      *)
(* object with a range-for and erases the current entry inside the loop.   *)
(* When nothing is erased the walk is well defined.  The first erase is    *)
(* well defined too, but it invalidates the iterator the loop then         *)
(* advances: from there the behaviour is undefined.  The outcomes kept     *)
(* here are a crash, and a walk that ends having erased any set of the     *)
(* doomed entries that is not empty.                                       *)
(***************************************************************************)
EraseWalkOutcomes(entity, doomed) ==
    IF doomed = {} THEN {[crash |-> FALSE, entity |-> entity]}
    ELSE {[crash |-> TRUE, entity |-> entity]} \cup
         {[crash |-> FALSE, entity |-> [k \in (DOMAIN entity) \ erased |-> entity[k]]] :
              erased \in (SUBSET doomed) \ {{}}}

cleanupKeyspaces(entity) ==
    EraseWalkOutcomes(entity, {k \in DOMAIN entity : DOMAIN entity[k] = {}})

cleanupEmptyFtTokenBalance(entity) ==
    EraseWalkOutcomes(entity, {k \in DOMAIN entity : entity[k] = 0})

cleanupEmptyNftTokenBalance(entity) ==
    EraseWalkOutcomes(entity, {k \in DOMAIN entity : ~entity[k]})

\* the contexts cleanupStateAndBalances can leave; crash if any walk crashed
cleanupStateAndBalances(sc) ==
    {[crash |-> a.crash \/ b.crash \/ c.crash \/ d.crash \/ e.crash,
      sc |-> [sc EXCEPT !.contractState = a.entity,
                        !.contractStateUpdates = b.entity,
                        !.contractStateDeletes = c.entity,
                        !.ftState = d.entity,
                        !.nftState = e.entity]] :
        a \in cleanupKeyspaces(sc.contractState),
        b \in cleanupKeyspaces(sc.contractStateUpdates),
        c \in cleanupKeyspaces(sc.contractStateDeletes),
        d \in cleanupEmptyFtTokenBalance(sc.ftState),
        e \in cleanupEmptyNftTokenBalance(sc.nftState)}

(***************************************************************************)
(* Result encoders.                                                        *)
(***************************************************************************)
\* std::to_string of an unsigned number: its decimal digits, as a sequence
\* of 0..9
RECURSIVE to_string(_)
to_string(n) == IF n < 10 THEN <<n>> ELSE to_string(n \div 10) \o <<n % 10>>

\* {tokenIdHex: {outputIndexDecimalString: amount}}
encodeFtWithdrawMap(sc) ==
    [k \in {GetHex(id) : id \in DOMAIN sc.ftWithdrawMap} |->
        LET id == CHOOSE x \in DOMAIN sc.ftWithdrawMap : GetHex(x) = k
            outputs == sc.ftWithdrawMap[id]
        IN  [d \in {to_string(i) : i \in DOMAIN outputs} |->
                outputs[CHOOSE i \in DOMAIN outputs : to_string(i) = d]]]

\* {tokenIdHex: outputIndex}
encodeNftWithdrawMap(sc) ==
    [k \in {GetHex(id) : id \in DOMAIN sc.nftWithdrawMap} |->
        LET id == CHOOSE x \in DOMAIN sc.nftWithdrawMap : GetHex(x) = k
        IN  sc.nftWithdrawMap[id]]

encodeFtIncomingBalancesAddedMap(sc) == [k \in {GetHex(id) : id \in sc.ftAddsSet} |-> TRUE]

encodeNftIncomingPutsMap(sc) == [k \in {GetHex(id) : id \in sc.nftPutsSet} |-> TRUE]

(***************************************************************************)
(* The state hash (script_utils.h).  A JSON object is a std::map: items()  *)
(* walks its keys in ascending order of the strings.  SHA-256 is kept      *)
(* symbolic: a digest is the record of what was hashed, so two digests are *)
(* equal exactly when their preimages are.                                 *)
(***************************************************************************)
\* the concatenation of f[k] for the keys k of f in items() order
RECURSIVE JoinFrom(_, _, _)
JoinFrom(f, keys, i) ==
    IF i > Len(keys) THEN <<>> ELSE f[keys[i]] \o JoinFrom(f, keys, i + 1)

JoinItems(f) == JoinFrom(f, SortedKeys(DOMAIN f), 1)

\* CSHA256().Write(preimage).Finalize(): 32 bytes, kept as one symbol
CSHA256(preimage) == [sha256 |-> preimage]

\* the n bytes of val, least significant first
RECURSIVE SerializeLE(_, _)
SerializeLE(val, n) ==
    IF n = 0 THEN <<>> ELSE <<val % 256>> \o SerializeLE(val \div 256, n - 1)

SerializeUint64_t(val) == SerializeLE(val, 8)

SerializeUint32_t(val) == SerializeLE(val, 4)

\* keyspace, then key and value of each of its entries
GetStateDataVectorOnlyStrings(stateData) ==
    JoinItems([ks \in DOMAIN stateData |->
        ParseHex(ks) \o JoinItems([kn \in DOMAIN stateData[ks] |->
                                      ParseHex(kn) \o ParseHex(stateData[ks][kn])])])

\* keyspace, then the key of each of its entries
GetStateDataVectorOnly2LevelStringKeysBooleanValue(stateData) ==
    JoinItems([ks \in DOMAIN stateData |->
        ParseHex(ks) \o JoinItems([kn \in DOMAIN stateData[ks] |-> ParseHex(kn)])])

\* the keys only
GetStateDataVectorStringKeyBooleanValue(stateData) ==
    JoinItems([k \in DOMAIN stateData |-> ParseHex(k)])

\* the keys only
GetStateDataVectorStringKeyIntValue(stateData) ==
    JoinItems([k \in DOMAIN stateData |-> ParseHex(k)])

GetStateDataHashState(data) == CSHA256(GetStateDataVectorOnlyStrings(data))

GetStateDataHashDeletes(data) ==
    CSHA256(GetStateDataVectorOnly2LevelStringKeysBooleanValue(data))

GetStateDataHashNftBalanceHash(data) == CSHA256(GetStateDataVectorStringKeyBooleanValue(data))

GetStateDataHashFtBalanceHash(data) == CSHA256(GetStateDataVectorStringKeyIntValue(data))

GetStateDataHashNftWithdraws(data) ==
    CSHA256(JoinItems([k \in DOMAIN data |-> ParseHex(k) \o SerializeUint32_t(data[k])]))

GetStateDataHashFtWithdraws(data) ==
    CSHA256(JoinItems([k \in DOMAIN data |->
        ParseHex(k) \o JoinItems([secondKey \in DOMAIN data[k] |->
            SerializeUint64_t(atoi(secondKey)) \o SerializeUint64_t(data[k][secondKey])])]))

\* CalculateStateHash with the hashes of the final balances exchanged
CalculateStateHashFtBeforeNft(prevHash, stateFinal, stateUpdates, stateDeletes, ftIncoming, nftIncoming, ftBalances, ftBalancesUpdates, nftBalances, nftBalancesUpdates, ftWithdraws, nftWithdraws) ==
    CSHA256(prevHash \o
            <<GetStateDataHashNftBalanceHash(nftIncoming),
              GetStateDataHashFtBalanceHash(ftIncoming),
              GetStateDataHashState(stateFinal),
              GetStateDataHashState(stateUpdates),
              GetStateDataHashDeletes(stateDeletes),
              GetStateDataHashFtBalanceHash(ftBalances),
              GetStateDataHashNftBalanceHash(nftBalances),
              GetStateDataHashNftBalanceHash(nftBalancesUpdates),
              GetStateDataHashFtBalanceHash(ftBalancesUpdates),
              GetStateDataHashNftWithdraws(nftWithdraws),
              GetStateDataHashFtWithdraws(ftWithdraws)>>)

\* the digest of the previous hash followed by the eleven inner digests
CalculateStateHash(prevHash, stateFinal, stateUpdates, stateDeletes, ftIncoming, nftIncoming, ftBalances, ftBalancesUpdates, nftBalances, nftBalancesUpdates, ftWithdraws, nftWithdraws) ==
    CSHA256(prevHash \o
            <<GetStateDataHashNftBalanceHash(nftIncoming),
              GetStateDataHashFtBalanceHash(ftIncoming),
              GetStateDataHashState(stateFinal),
              GetStateDataHashState(stateUpdates),
              GetStateDataHashDeletes(stateDeletes),
              GetStateDataHashNftBalanceHash(nftBalances),
              GetStateDataHashFtBalanceHash(ftBalances),
              GetStateDataHashNftBalanceHash(nftBalancesUpdates),
              GetStateDataHashFtBalanceHash(ftBalancesUpdates),
              GetStateDataHashNftWithdraws(nftWithdraws),
              GetStateDataHashFtWithdraws(ftWithdraws)>>)

(***************************************************************************)
(* ScriptExecutionContext.  The context is a record:                       *)
(*   tx          : [prevout, vout]: the outpoint [txid, n] of input 0 and  *)
(*                 the outputs, each [nValue, scriptPubKey]                *)
(*   _fullScript : the unlock script followed by the lock script           *)
(*   _pubKey     : the auth public key, empty if none was given            *)
(* The scripts of the outputs of this model that begin with OP_RETURN are  *)
(* at least five bytes long.                                               *)
(***************************************************************************)
\* CScript::IsUnspendable
IsUnspendable(script) == Len(script) > 0 /\ script[1] = OP_RETURN

\* CScript::IsSigOpReturn: OP_RETURN, the push of "sig", then a push: gives
\* whether the script is one and the bytes of that push
IsSigOpReturn(script) ==
    LET no == [ok |-> FALSE, sig |-> <<>>]
    IN  IF ~IsUnspendable(script) THEN no
        ELSE IF ~(script[2] = 3 /\ script[3] = 115 /\ script[4] = 105 /\ script[5] = 103)
             THEN no
        ELSE LET op == GetScriptOp(script, 5)
             IN  IF ~op.ok THEN no
                 ELSE IF op.opcode > OP_PUSHDATA4 THEN no
                 ELSE [ok |-> TRUE, sig |-> op.vch]

\* the bytes of a uint64_t and of a uint32_t in memory, little-endian; a
\* negative int converts to its two's complement
writeUint64(x) == SerializeLE(x, 8)

writeUint32(x) == SerializeLE(x, 4)

\* CScriptNum::getint on the int64_t alternative: saturates to int
getintOfInt64(n) ==
    IF n > INT_MAX THEN INT_MAX
    ELSE IF n < INT_MIN THEN INT_MIN
    ELSE n

getAuthPubKey(context) ==
    IF Len(context._pubKey) # 0 THEN [ok |-> TRUE, pubKey |-> context._pubKey]
    ELSE [ok |-> FALSE, pubKey |-> <<>>]

\* the push of the first output that is a sig OP_RETURN
RECURSIVE getAuthSigFrom(_, _)
getAuthSigFrom(vout, index) ==
    IF index > Len(vout) THEN [ok |-> FALSE, sig |-> <<>>]
    ELSE LET r == IsSigOpReturn(vout[index].scriptPubKey)
         IN  IF r.ok THEN r ELSE getAuthSigFrom(vout, index + 1)

getAuthSig(context) == getAuthSigFrom(context.tx.vout, 1)

\* the part of the auth message the outputs from index on contribute
RECURSIVE AuthOutputsFrom(_, _)
AuthOutputsFrom(vout, index) ==
    IF index > Len(vout) THEN <<>>
    ELSE LET output == vout[index]
             outputValVec == writeUint64(getintOfInt64(output.nValue))
         IN  (IF ~IsSigOpReturn(output.scriptPubKey).ok
              THEN outputValVec \o output.scriptPubKey
              ELSE <<>>) \o AuthOutputsFrom(vout, index + 1)

\* the bytes that are signed to authorize the call
getAuthMessage(context) ==
    context.tx.prevout.txid \o writeUint32(context.tx.prevout.n)
        \o context._fullScript \o AuthOutputsFrom(context.tx.vout, 1)

\* The signature checks.  What they answer is given with the call: whether
\* the encodings of the signature and of the public key are valid, and the
\* triples of signature, public key and 32-byte hash that verify.
CheckDataSignatureEncoding(vchSig, checker) == checker.sigEncoding

CheckPubKeyEncoding(vchPubKey, checker) == checker.pubKeyEncoding

\* BaseSignatureChecker::VerifySignature
VerifySignature(vchSig, pubkey, sighash, checker) ==
    [sig |-> vchSig, pubKey |-> pubkey, hash |-> sighash] \in checker.signed

(***************************************************************************)
(* ConditionStack: the size of the implied stack of booleans and the       *)
(* position of its first false.                                            *)
(***************************************************************************)
\* stands for std::numeric_limits<uint32_t>::max()
NO_FALSE == 0 - 1

ConditionStackInit == [m_stack_size |-> 0, m_first_false_pos |-> NO_FALSE]

empty(cs) == cs.m_stack_size = 0

all_true(cs) == cs.m_first_false_pos = NO_FALSE

push_back(cs, f) ==
    [m_stack_size |-> cs.m_stack_size + 1,
     m_first_false_pos |-> IF cs.m_first_false_pos = NO_FALSE /\ ~f
                           THEN cs.m_stack_size ELSE cs.m_first_false_pos]

pop_back(cs) ==
    [m_stack_size |-> cs.m_stack_size - 1,
     m_first_false_pos |-> IF cs.m_first_false_pos = cs.m_stack_size - 1
                           THEN NO_FALSE ELSE cs.m_first_false_pos]

\* a toggle_top that takes every false entry to be the one on top
toggle_topAnyFalse(cs) ==
    [cs EXCEPT !.m_first_false_pos =
        IF @ = NO_FALSE THEN cs.m_stack_size - 1 ELSE NO_FALSE]

toggle_top(cs) ==
    [cs EXCEPT !.m_first_false_pos =
        IF @ = NO_FALSE THEN cs.m_stack_size - 1
        ELSE IF @ = cs.m_stack_size - 1 THEN NO_FALSE
        ELSE @]

(***************************************************************************)
(* EvalScript.  The machine of one evaluation is a record                  *)
(*   [stack, vfExec, sc]                                                   *)
(* and executing one opcode gives a record                                 *)
(*   [kind, serror, m, threw]                                              *)
(* where kind is "next" (go on with the loop), "false" (return             *)
(* set_error(serror)), "true" (return set_success), "threw" (an exception  *)
(* EvalScript does not catch leaves it) or "crashed", and m is the machine *)
(* left behind.                                                            *)
(***************************************************************************)
\* stacktop(i), i negative
stacktop(stack, i) == stack[Len(stack) + 1 + i]

popstack(stack) == SubSeq(stack, 1, Len(stack) - 1)

GoOn(m) == [kind |-> "next", serror |-> "UNKNOWN", m |-> m, threw |-> "none"]

Fail(m, e) == [kind |-> "false", serror |-> e, m |-> m, threw |-> "none"]

\* the process ends: an access to memory that is not the program's, or an
\* assert that fails
Crashed(m) == [kind |-> "crashed", serror |-> "UNKNOWN", m |-> m, threw |-> "none"]

\* OP_FT_BALANCE_ADD, inside the unary group
ExecFtBalanceAdd(m) ==
    LET n == stacktop(m.stack, -1)
    IN  IF Len(n) # ATOMICAL_REF_SIZE THEN Fail(m, "INVALID_ATOMICAL_REF_SIZE")
        ELSE LET r == contractFtBalanceAdd(m.sc, n)
                 m1 == [m EXCEPT !.sc = r.sc]
             IN  IF ~r.ok THEN Fail(m1, "INVALID_AVM_FT_BALANCE_ADD_INVALID")
                 ELSE GoOn([m1 EXCEPT !.stack = popstack(@)])

\* OP_NFT_PUT, inside the unary group
ExecNftPut(m) ==
    LET n == stacktop(m.stack, -1)
    IN  IF Len(n) # ATOMICAL_REF_SIZE THEN Fail(m, "INVALID_ATOMICAL_REF_SIZE")
        ELSE LET r == contractNftPut(m.sc, n)
                 m1 == [m EXCEPT !.sc = r.sc]
             IN  IF r.threw # "none"
                 THEN [kind |-> "threw", serror |-> "UNKNOWN", m |-> m1, threw |-> r.threw]
                 ELSE IF ~r.ok THEN Fail(m1, "INVALID_AVM_NFT_PUT_INVALID")
                 ELSE GoOn([m1 EXCEPT !.stack = popstack(@)])

\* OP_NFT_WITHDRAW, inside the binary group: vch1 is stacktop(-2), vch2 is
\* stacktop(-1).  A CScriptNum exception is a std::exception: EvalScript
\* catches it and returns UNKNOWN.
ExecNftWithdraw(m, vout) ==
    LET vch1 == stacktop(m.stack, -2)
        vch2 == stacktop(m.stack, -1)
    IN  IF Len(vch1) # ATOMICAL_REF_SIZE THEN Fail(m, "INVALID_ATOMICAL_REF_SIZE")
        ELSE
          LET bn == CScriptNum(vch1, MAXIMUM_ITEM_SIZE)
          IN  IF bn.exc # "none" THEN Fail(m, "UNKNOWN")
              ELSE
                LET index == getint(bn.m_value)
                IN  IF index < 0 \/ index >= Len(vout)
                    THEN Fail(m, "INVALID_AVM_WITHDRAW_NFT_OUTPUT_INDEX")
                    ELSE LET r == contractWithdrawNft(m.sc, vch2, index)
                             m1 == [m EXCEPT !.sc = r.sc]
                         IN  IF ~r.ok THEN Fail(m1, "INVALID_AVM_WITHDRAW_NFT")
                             ELSE GoOn([m1 EXCEPT !.stack = popstack(popstack(@))])

vchFalse == <<>>

vchTrue == <<1>>

\* OP_KV_EXISTS, inside the binary group
ExecKvExists(m) ==
    LET vch1 == stacktop(m.stack, -2)
        vch2 == stacktop(m.stack, -1)
        doesKeyExist == contractStateExists(m.sc, vch1, vch2)
    IN  GoOn([m EXCEPT !.stack = Append(popstack(popstack(@)),
                                        IF doesKeyExist THEN vchTrue ELSE vchFalse)])

\* OP_KV_GET, inside the binary group
ExecKvGet(m) ==
    LET vch1 == stacktop(m.stack, -2)
        vch2 == stacktop(m.stack, -1)
        r == contractStateGet(m.sc, vch1, vch2)
    IN  IF r.ok THEN GoOn([m EXCEPT !.stack = Append(popstack(popstack(@)), r.value)])
        ELSE Fail(m, "INVALID_AVM_STATE_KEY_NOT_FOUND")

\* OP_KV_DELETE, inside the binary group
ExecKvDelete(m) ==
    LET vch1 == stacktop(m.stack, -2)
        vch2 == stacktop(m.stack, -1)
    IN  GoOn([m EXCEPT !.sc = contractStateDelete(@, vch1, vch2),
                       !.stack = popstack(popstack(@))])

\* OP_KV_PUT, inside the ternary group
ExecKvPut(m) ==
    LET vch1 == stacktop(m.stack, -3)
        vch2 == stacktop(m.stack, -2)
        vch3 == stacktop(m.stack, -1)
    IN  IF Len(vch1) > maxStateKeySize THEN Fail(m, "INVALID_AVM_STATE_KEY_SIZE")
        ELSE IF Len(vch2) > maxStateKeySize THEN Fail(m, "INVALID_AVM_STATE_KEY_SIZE")
        ELSE GoOn([m EXCEPT !.sc = contractStatePut(@, vch1, vch2, vch3),
                            !.stack = popstack(popstack(popstack(@)))])

\* OP_FT_ITEM, inside the binary group: vch1 is the index, vch2 the type,
\* 0 for the balances and 1 for the incoming map
ExecFtItem(m) ==
    LET bnIndex == CScriptNum(stacktop(m.stack, -2), MAXIMUM_ITEM_SIZE)
        bnType == CScriptNum(stacktop(m.stack, -1), MAXIMUM_ITEM_SIZE)
    IN  IF bnIndex.exc # "none" THEN Fail(m, "UNKNOWN")
        ELSE IF getint(bnIndex.m_value) < 0
             THEN Fail(m, "INVALID_AVM_INVALID_FT_ITEM_INDEX")
        ELSE IF bnType.exc # "none" THEN Fail(m, "UNKNOWN")
        ELSE IF getint(bnType.m_value) < 0 \/ getint(bnType.m_value) > 1
             THEN Fail(m, "INVALID_AVM_FT_ITEM_TYPE")
        ELSE
          LET index == getint(bnIndex.m_value)
              m1 == [m EXCEPT !.stack = popstack(popstack(@))]
              r == IF getint(bnType.m_value) = 0 THEN getFtItem(m.sc, index)
                   ELSE getFtItemIncoming(m.sc, index)
          IN  IF r.ok THEN GoOn([m1 EXCEPT !.stack = Append(@, r.tokenId)])
              ELSE Fail(m1, "INVALID_AVM_INVALID_FT_ITEM_INDEX")

\* OP_NFT_ITEM, inside the binary group
ExecNftItem(m) ==
    LET bnIndex == CScriptNum(stacktop(m.stack, -2), MAXIMUM_ITEM_SIZE)
        bnType == CScriptNum(stacktop(m.stack, -1), MAXIMUM_ITEM_SIZE)
    IN  IF bnIndex.exc # "none" THEN Fail(m, "UNKNOWN")
        ELSE IF getint(bnIndex.m_value) < 0
             THEN Fail(m, "INVALID_AVM_INVALID_NFT_ITEM_INDEX")
        ELSE IF bnType.exc # "none" THEN Fail(m, "UNKNOWN")
        ELSE IF getint(bnType.m_value) < 0 \/ getint(bnType.m_value) > 1
             THEN Fail(m, "INVALID_AVM_NFT_ITEM_TYPE")
        ELSE
          LET index == getint(bnIndex.m_value)
              m1 == [m EXCEPT !.stack = popstack(popstack(@))]
              r == IF getint(bnType.m_value) = 0 THEN getNftItem(m.sc, index)
                   ELSE getNftItemIncoming(m.sc, index)
          IN  IF r.ok THEN GoOn([m1 EXCEPT !.stack = Append(@, r.tokenId)])
              ELSE Fail(m1, "INVALID_AVM_INVALID_NFT_ITEM_INDEX")

\* the amount test without the comparison with the output
FtWithdrawAmountNotPositive(withdrawAmount, output) == withdrawAmount <= 0

\* the amount test of OP_FT_WITHDRAW against the value of the output paid
FtWithdrawAmountInvalid(withdrawAmount, output) ==
    withdrawAmount <= 0 \/ withdrawAmount > output

\* OP_FT_WITHDRAW, inside the ternary group: vch1 is stacktop(-3), the
\* amount; vch2 is stacktop(-2), the output index; vch3 is stacktop(-1)
ExecFtWithdraw(m, vout) ==
    LET vch1 == stacktop(m.stack, -3)
        vch2 == stacktop(m.stack, -2)
        vch3 == stacktop(m.stack, -1)
    IN  IF Len(vch3) # ATOMICAL_REF_SIZE THEN Fail(m, "INVALID_ATOMICAL_REF_SIZE")
        ELSE
          LET bnIndex == CScriptNum(vch2, MAXIMUM_ITEM_SIZE)
          IN  IF bnIndex.exc # "none" THEN Fail(m, "UNKNOWN")
              ELSE
                LET index == getint(bnIndex.m_value)
                IN  IF index < 0 \/ index >= Len(vout)
                    THEN Fail(m, "INVALID_AVM_WITHDRAW_FT_OUTPUT_INDEX")
                    ELSE
                      LET output == vout[index + 1]
                          bnAmount == CScriptNum(vch1, MAXIMUM_ITEM_SIZE)
                      IN  IF bnAmount.exc # "none" THEN Fail(m, "UNKNOWN")
                          ELSE
                            LET withdrawAmount == getint(bnAmount.m_value)
                            IN  IF FtWithdrawAmountInvalid(withdrawAmount, output)
                                THEN Fail(m, "INVALID_AVM_WITHDRAW_FT_AMOUNT")
                                ELSE
                                  LET r == contractWithdrawFt(m.sc, vch3, index,
                                                              withdrawAmount)
                                      m1 == [m EXCEPT !.sc = r.sc]
                                  IN  IF ~r.ok THEN Fail(m1, "INVALID_AVM_WITHDRAW_FT")
                                      ELSE GoOn([m1 EXCEPT !.stack =
                                                    popstack(popstack(popstack(@)))])

\* OP_IF and OP_NOTIF
ExecIf(m, opcode, fExec) ==
    IF fExec THEN
        IF Len(m.stack) < 1 THEN Fail(m, "UNBALANCED_CONDITIONAL")
        ELSE
          LET vch == stacktop(m.stack, -1)
          IN  IF Len(vch) > 1 THEN Fail(m, "MINIMALIF")
              ELSE IF Len(vch) = 1 /\ vch[1] # 1 THEN Fail(m, "MINIMALIF")
              ELSE
                LET fValue == IF opcode = OP_NOTIF THEN ~CastToBool(vch)
                              ELSE CastToBool(vch)
                IN  GoOn([m EXCEPT !.stack = popstack(@),
                                   !.vfExec = push_back(@, fValue)])
    ELSE GoOn([m EXCEPT !.vfExec = push_back(@, FALSE)])

\* the int64_t a uint64_t converts to: int64_t has the width of uint64_t
ToInt64(x) == IF x >= U64_MOD \div 2 THEN x - U64_MOD ELSE x

\* OP_FT_COUNT and OP_NFT_COUNT, inside the unary group: held is the map of
\* the tokens held, incoming the map of the incoming ones
ExecCount(m, held, incoming, typeError) ==
    LET sn == CScriptNum(stacktop(m.stack, -1), MAXIMUM_ITEM_SIZE)
    IN  IF sn.exc # "none" THEN Fail(m, "UNKNOWN")
        ELSE IF getint(sn.m_value) < 0 \/ getint(sn.m_value) > 1 THEN Fail(m, typeError)
        ELSE LET count == IF getint(sn.m_value) = 0 THEN getCount(held)
                          ELSE getCount(incoming)
             IN  GoOn([m EXCEPT !.stack = Append(popstack(@), serialize(count))])

\* OP_FT_BALANCE, inside the binary group
ExecFtBalance(m) ==
    LET vch1 == stacktop(m.stack, -2)
        sn == CScriptNum(stacktop(m.stack, -1), MAXIMUM_ITEM_SIZE)
    IN  IF Len(vch1) # ATOMICAL_REF_SIZE THEN Fail(m, "INVALID_ATOMICAL_REF_SIZE")
        ELSE IF sn.exc # "none" THEN Fail(m, "UNKNOWN")
        ELSE IF getint(sn.m_value) < 0 \/ getint(sn.m_value) > 1
             THEN Fail(m, "INVALID_AVM_FT_BALANCE_TYPE")
        ELSE LET balance == IF getint(sn.m_value) = 0
                            THEN contractFtBalance(m.sc.ftState, vch1)
                            ELSE contractFtBalance(m.sc.ftStateIncoming, vch1)
             IN  GoOn([m EXCEPT !.stack = Append(popstack(popstack(@)),
                                                 serialize(ToInt64(balance)))])

\* OP_NFT_EXISTS, inside the binary group
ExecNftExists(m) ==
    LET vch1 == stacktop(m.stack, -2)
        sn == CScriptNum(stacktop(m.stack, -1), MAXIMUM_ITEM_SIZE)
    IN  IF Len(vch1) # ATOMICAL_REF_SIZE THEN Fail(m, "INVALID_ATOMICAL_REF_SIZE")
        ELSE IF sn.exc # "none" THEN Fail(m, "UNKNOWN")
        ELSE IF getint(sn.m_value) < 0 \/ getint(sn.m_value) > 1
             THEN Fail(m, "INVALID_AVM_NFT_EXISTS_TYPE")
        ELSE LET exists == IF getint(sn.m_value) = 0
                           THEN contractNftExists(m.sc.nftState, vch1)
                           ELSE contractNftExists(m.sc.nftStateIncoming, vch1)
             IN  GoOn([m EXCEPT !.stack = Append(popstack(popstack(@)),
                                                 IF exists THEN vchTrue ELSE vchFalse)])

\* OP_GETBLOCKINFO, inside the binary group.  The operands are popped
\* before the table is looked at; InvalidBlockInfoHeight is thrown as a
\* pointer.
ExecGetBlockInfo(m) ==
    LET sn1 == CScriptNum(stacktop(m.stack, -2), MAXIMUM_ITEM_SIZE)
        sn2 == CScriptNum(stacktop(m.stack, -1), MAXIMUM_ITEM_SIZE)
    IN  IF sn1.exc # "none" \/ sn2.exc # "none" THEN Fail(m, "UNKNOWN")
        ELSE
          LET heightNumber == getint(sn1.m_value)
              blockField == getint(sn2.m_value)
              m1 == [m EXCEPT !.stack = popstack(popstack(@))]
          IN  IF blockField < 0 \/ blockField > 8
              THEN Fail(m, "INVALID_AVM_INVALID_BLOCKINFO_ITEM")
              ELSE IF ~isAllowedBlockInfoHeight(m.sc.external, heightNumber)
              THEN [kind |-> "threw", serror |-> "UNKNOWN", m |-> m1,
                    threw |-> "InvalidBlockInfoHeight*"]
              ELSE GoOn([m1 EXCEPT !.stack =
                            Append(@, CurrentBlockInfoField(m.sc.external, heightNumber,
                                                            blockField))])

\* OP_DECODEBLOCKINFO, inside the binary group
ExecDecodeBlockInfo(m) ==
    LET vch1 == stacktop(m.stack, -2)
        sn == CScriptNum(stacktop(m.stack, -1), MAXIMUM_ITEM_SIZE)
    IN  IF Len(vch1) # 80 THEN Fail(m, "INVALID_AVM_BLOCK_HEADER_SIZE")
        ELSE IF sn.exc # "none" THEN Fail(m, "UNKNOWN")
        ELSE IF getint(sn.m_value) < 0 \/ getint(sn.m_value) > 6
             THEN Fail(m, "INVALID_AVM_INVALID_BLOCKINFO_ITEM")
        ELSE GoOn([m EXCEPT !.stack =
                      Append(popstack(popstack(@)),
                             BlockInfoField(decodeHeader(vch1), getint(sn.m_value)))])

\* the digest functions of OP_HASH_FN: SHA3-256, SHA-512, SHA-512/256 and
\* Eaglesong.  A digest is kept as bytes that tell the function and the
\* first byte and the length of what was hashed.
HashFn(hashFuncIndex, data) ==
    [i \in 1..(IF hashFuncIndex = 1 THEN 64 ELSE 32) |->
        (hashFuncIndex + i + Len(data) + (IF Len(data) > 0 THEN data[1] ELSE 0)) % 256]

\* OP_HASH_FN, inside the binary group
ExecHashFn(m) ==
    LET vch1 == stacktop(m.stack, -2)
        sn == CScriptNum(stacktop(m.stack, -1), MAXIMUM_ITEM_SIZE)
    IN  IF sn.exc # "none" THEN Fail(m, "UNKNOWN")
        ELSE IF getint(sn.m_value) < 0 \/ getint(sn.m_value) > 3
             THEN Fail(m, "INVALID_AVM_HASH_FUNC")
        ELSE GoOn([m EXCEPT !.stack =
                      Append(popstack(popstack(@)), HashFn(getint(sn.m_value), vch1))])

\* OP_CHECKAUTHSIG and OP_CHECKAUTHSIGVERIFY with a signature or a public
\* key alone taken as no authorization
ExecCheckAuthSigOneSided(m, opcode, context, checker) ==
    LET sig == getAuthSig(context)
        pub == getAuthPubKey(context)
    IN  IF sig.ok /\ pub.ok THEN
            IF \/ ~CheckDataSignatureEncoding(sig.sig, checker)
               \/ ~CheckPubKeyEncoding(pub.pubKey, checker)
            THEN Fail(m, "INVALID_AVM_CHECKAUTHSIG")
            ELSE IF ~VerifySignature(sig.sig, pub.pubKey,
                                     CSHA256(getAuthMessage(context)), checker)
            THEN Fail(m, "INVALID_AVM_CHECKAUTHSIGNULL")
            ELSE GoOn([m EXCEPT !.stack = Append(@, pub.pubKey)])
        ELSE IF opcode = OP_CHECKAUTHSIGVERIFY
             THEN Fail(m, "INVALID_AVM_CHECKAUTHSIGVERIFY")
        ELSE GoOn([m EXCEPT !.stack = Append(@, vchFalse)])

\* OP_CHECKAUTHSIG and OP_CHECKAUTHSIGVERIFY, the context being there
ExecCheckAuthSig(m, opcode, context, checker) ==
    LET sig == getAuthSig(context)
        pub == getAuthPubKey(context)
    IN  IF sig.ok \/ pub.ok THEN
            IF \/ ~sig.ok
               \/ ~pub.ok
               \/ ~CheckDataSignatureEncoding(sig.sig, checker)
               \/ ~CheckPubKeyEncoding(pub.pubKey, checker)
            THEN Fail(m, "INVALID_AVM_CHECKAUTHSIG")
            ELSE IF ~VerifySignature(sig.sig, pub.pubKey,
                                     CSHA256(getAuthMessage(context)), checker)
            THEN Fail(m, "INVALID_AVM_CHECKAUTHSIGNULL")
            ELSE GoOn([m EXCEPT !.stack = Append(@, pub.pubKey)])
        ELSE IF opcode = OP_CHECKAUTHSIGVERIFY
             THEN Fail(m, "INVALID_AVM_CHECKAUTHSIGVERIFY")
        ELSE GoOn([m EXCEPT !.stack = Append(@, vchFalse)])

\* an OP_RETURN that goes on with the script when the stack is empty
ExecReturnGoesOn(m) ==
    IF Len(m.stack) = 0 THEN GoOn(m) ELSE Fail(m, "OP_RETURN")

\* OP_RETURN: with an empty stack `return set_success(serror)`, whatever
\* follows in the script and whatever conditionals are open
ExecReturn(m) ==
    IF Len(m.stack) = 0
    THEN [kind |-> "true", serror |-> "OK", m |-> m, threw |-> "none"]
    ELSE Fail(m, "OP_RETURN")

\* OP_EQUAL and OP_EQUALVERIFY.  With fewer than two elements the code
\* reads stacktop(-1) before it returns the error: on an empty stack that is
\* stack.at(size_t(-1)), which throws std::out_of_range, and the handler of
\* std::exception of EvalScript turns it into UNKNOWN.
ExecEqual(m, opcode) ==
    IF Len(m.stack) < 2
    THEN IF Len(m.stack) = 0 THEN Fail(m, "UNKNOWN")
         ELSE Fail(m, "INVALID_STACK_OPERATION")
    ELSE LET fEqual == stacktop(m.stack, -2) = stacktop(m.stack, -1)
             stk == popstack(popstack(m.stack))
         IN  IF opcode = OP_EQUALVERIFY
             THEN IF fEqual THEN GoOn([m EXCEPT !.stack = stk])
                  ELSE Fail([m EXCEPT !.stack = Append(stk, vchFalse)], "EQUALVERIFY")
             ELSE GoOn([m EXCEPT !.stack = Append(stk, IF fEqual THEN vchTrue ELSE vchFalse)])

\* the precondition getSizeType asserts: 0 <= n <= INT_MAX
getSizeTypePre(n) ==
    /\ ~n.neg
    /\ SigLen(n.mag) <= 3
    /\ MagValue(SubBytes(n.mag, 0, SigLen(n.mag))) <= INT_MAX

\* CScriptNum::getSizeType, where its precondition holds
getSizeType(n) == MagValue(SubBytes(n.mag, 0, SigLen(n.mag)))

\* sn >= size for a size of the stack (less than 2^24)
AtLeastSize(n, size) ==
    /\ ~n.neg
    /\ SigLen(n.mag) > 3 \/ MagValue(SubBytes(n.mag, 0, SigLen(n.mag))) >= size

\* bit i of a byte, bit 0 the least significant
BitOf(a, i) == (a \div Pow2(i)) % 2

\* a | b on bytes
OrByte(a, b) ==
    LET bit(i) == IF BitOf(a, i) = 1 \/ BitOf(b, i) = 1 THEN Pow2(i) ELSE 0
    IN  bit(0) + bit(1) + bit(2) + bit(3) + bit(4) + bit(5) + bit(6) + bit(7)

\* RShift(x, n): byte i of x gives its high bits, moved down, to byte
\* i + byte_shift of the result and its low bits, moved up, to the byte after
RShift(x, n) ==
    LET bit_shift == n % 8
        byte_shift == n \div 8
        val(i) == x[i + 1] \div Pow2(bit_shift)
        carryval(i) == ((x[i + 1] % Pow2(bit_shift)) * Pow2(8 - bit_shift)) % 256
    IN  [k1 \in 1..Len(x) |->
            LET k == k1 - 1
            IN  OrByte(IF k - byte_shift >= 0 THEN val(k - byte_shift) ELSE 0,
                       IF k - 1 - byte_shift >= 0 THEN carryval(k - 1 - byte_shift) ELSE 0)]

\* an LShift that drops the bits that cross into the next byte
LShiftNoCarry(x, n) ==
    LET bit_shift == n % 8
        byte_shift == n \div 8
        val(i) == ((x[i + 1] % Pow2(8 - bit_shift)) * Pow2(bit_shift)) % 256
    IN  [k1 \in 1..Len(x) |->
            LET k == k1 - 1
            IN  IF k + byte_shift < Len(x) THEN val(k + byte_shift) ELSE 0]

\* LShift(x, n): byte i of x gives its low bits, moved up, to byte
\* i - byte_shift of the result and its high bits, moved down, to the byte
\* before
LShift(x, n) ==
    LET bit_shift == n % 8
        byte_shift == n \div 8
        val(i) == ((x[i + 1] % Pow2(8 - bit_shift)) * Pow2(bit_shift)) % 256
        carryval(i) == x[i + 1] \div Pow2(8 - bit_shift)
    IN  [k1 \in 1..Len(x) |->
            LET k == k1 - 1
            IN  OrByte(IF k + byte_shift < Len(x) THEN val(k + byte_shift) ELSE 0,
                       IF k + 1 + byte_shift < Len(x) THEN carryval(k + 1 + byte_shift)
                       ELSE 0)]

\* do { values = Shift(values, n.getint()); n -= INT_MAX; } while (n > 0)
RECURSIVE ShiftLoop(_, _, _)
ShiftLoop(values, n, opcode) ==
    LET by == IF n > INT_MAX THEN INT_MAX ELSE n
        shifted == IF opcode = OP_LSHIFT THEN LShift(values, by) ELSE RShift(values, by)
    IN  IF n - INT_MAX > 0 THEN ShiftLoop(shifted, n - INT_MAX, opcode) ELSE shifted

\* OP_LSHIFT and OP_RSHIFT
ExecShift(m, opcode) ==
    IF Len(m.stack) < 2 THEN Fail(m, "INVALID_STACK_OPERATION")
    ELSE LET vch1 == stacktop(m.stack, -2)
             n == CScriptNum(stacktop(m.stack, -1), MAXIMUM_ITEM_SIZE)
             stk == popstack(popstack(m.stack))
         IN  IF n.exc # "none" THEN Fail(m, "UNKNOWN")
             ELSE IF n.m_value.neg THEN Fail(m, "INVALID_NUMBER_RANGE")
             ELSE IF AtLeastSize(n.m_value, Len(vch1) * 8)
                  THEN GoOn([m EXCEPT !.stack = Append(stk, [i \in 1..Len(vch1) |-> 0])])
             ELSE GoOn([m EXCEPT !.stack =
                           Append(stk, ShiftLoop(vch1, getSizeType(n.m_value), opcode))])

\* OP_PICK and OP_ROLL.  getSizeType is called on the index before the
\* index is compared with 0 and with the depth: built with assert, an index
\* outside 0..INT_MAX ends the process there; built without, the conversion
\* gives some size, which is not used before the comparison rejects the
\* index.
ExecPick(m, opcode, asserts) ==
    IF Len(m.stack) < 2 THEN Fail(m, "INVALID_STACK_OPERATION")
    ELSE LET sn == CScriptNum(stacktop(m.stack, -1), MAXIMUM_ITEM_SIZE)
             stk == popstack(m.stack)
         IN  IF sn.exc # "none" THEN Fail(m, "UNKNOWN")
             ELSE IF asserts /\ ~getSizeTypePre(sn.m_value) THEN Crashed(m)
             ELSE IF sn.m_value.neg \/ AtLeastSize(sn.m_value, Len(stk))
                  THEN Fail([m EXCEPT !.stack = stk], "INVALID_STACK_OPERATION")
             ELSE LET n == getSizeType(sn.m_value)
                      vch == stacktop(stk, 0 - n - 1)
                      at == Len(stk) - n
                  IN  GoOn([m EXCEPT !.stack =
                                IF opcode = OP_ROLL
                                THEN SubSeq(stk, 1, at - 1)
                                         \o SubSeq(stk, at + 1, Len(stk)) \o <<vch>>
                                ELSE Append(stk, vch)])

\* The switch on the opcode.  The scripts of this model are made of the
\* opcodes named here and of opcodes the code has no case for.  The case of
\* OP_CHECKAUTHSIG and OP_CHECKAUTHSIGVERIFY has no test of the context: it
\* reads the object `context->` gives, auth.deref.  auth.asserts tells
\* whether the build has kept the asserts.
ExecOpcode(m, opcode, fExec, hasContext, vout, auth) ==
    IF opcode = OP_1NEGATE \/ (opcode >= OP_1 /\ opcode <= OP_16)
        THEN GoOn([m EXCEPT !.stack = Append(@, serialize(opcode - (OP_1 - 1)))])
    ELSE IF opcode = OP_NOP THEN GoOn(m)
    ELSE IF opcode = OP_IF \/ opcode = OP_NOTIF THEN ExecIf(m, opcode, fExec)
    ELSE IF opcode = OP_ELSE THEN
        IF empty(m.vfExec) THEN Fail(m, "UNBALANCED_CONDITIONAL")
        ELSE GoOn([m EXCEPT !.vfExec = toggle_top(@)])
    ELSE IF opcode = OP_ENDIF THEN
        IF empty(m.vfExec) THEN Fail(m, "UNBALANCED_CONDITIONAL")
        ELSE GoOn([m EXCEPT !.vfExec = pop_back(@)])
    ELSE IF opcode = OP_VERIFY THEN
        IF Len(m.stack) < 1 THEN Fail(m, "INVALID_STACK_OPERATION")
        ELSE IF CastToBool(stacktop(m.stack, -1))
             THEN GoOn([m EXCEPT !.stack = popstack(@)])
        ELSE Fail(m, "VERIFY")
    ELSE IF opcode = OP_RETURN THEN ExecReturn(m)
    ELSE IF opcode = OP_TOALTSTACK THEN
        IF Len(m.stack) < 1 THEN Fail(m, "INVALID_STACK_OPERATION")
        ELSE GoOn([m EXCEPT !.altstack = Append(@, stacktop(m.stack, -1)),
                            !.stack = popstack(@)])
    ELSE IF opcode = OP_FROMALTSTACK THEN
        IF Len(m.altstack) < 1 THEN Fail(m, "INVALID_ALTSTACK_OPERATION")
        ELSE GoOn([m EXCEPT !.stack = Append(@, stacktop(m.altstack, -1)),
                            !.altstack = popstack(@)])
    ELSE IF opcode = OP_3DUP THEN
        IF Len(m.stack) < 3 THEN Fail(m, "INVALID_STACK_OPERATION")
        ELSE GoOn([m EXCEPT !.stack = @ \o <<stacktop(m.stack, -3), stacktop(m.stack, -2),
                                              stacktop(m.stack, -1)>>])
    ELSE IF opcode = OP_DROP THEN
        IF Len(m.stack) < 1 THEN Fail(m, "INVALID_STACK_OPERATION")
        ELSE GoOn([m EXCEPT !.stack = popstack(@)])
    ELSE IF opcode = OP_DUP THEN
        IF Len(m.stack) < 1 THEN Fail(m, "INVALID_STACK_OPERATION")
        ELSE GoOn([m EXCEPT !.stack = Append(@, stacktop(m.stack, -1))])
    ELSE IF opcode = OP_PICK \/ opcode = OP_ROLL THEN ExecPick(m, opcode, auth.asserts)
    ELSE IF opcode = OP_EQUAL \/ opcode = OP_EQUALVERIFY THEN ExecEqual(m, opcode)
    ELSE IF opcode = OP_LSHIFT \/ opcode = OP_RSHIFT THEN ExecShift(m, opcode)
    ELSE IF opcode = OP_CHECKAUTHSIG \/ opcode = OP_CHECKAUTHSIGVERIFY THEN
        IF auth.deref.crash THEN Crashed(m)
        ELSE ExecCheckAuthSig(m, opcode, auth.deref.context, auth.checker)
    ELSE IF opcode \in {OP_FT_COUNT, OP_NFT_COUNT, OP_NFT_PUT, OP_FT_BALANCE_ADD} THEN
        IF ~hasContext THEN Fail(m, "CONTEXT_NOT_PRESENT")
        ELSE IF Len(m.stack) < 1 THEN Fail(m, "INVALID_STACK_OPERATION")
        ELSE IF opcode = OP_FT_BALANCE_ADD THEN ExecFtBalanceAdd(m)
        ELSE IF opcode = OP_NFT_PUT THEN ExecNftPut(m)
        ELSE IF opcode = OP_FT_COUNT
             THEN ExecCount(m, m.sc.ftState, m.sc.ftStateIncoming,
                            "INVALID_AVM_FT_COUNT_TYPE")
        ELSE ExecCount(m, m.sc.nftState, m.sc.nftStateIncoming,
                       "INVALID_AVM_NFT_COUNT_TYPE")
    ELSE IF opcode \in {OP_KV_EXISTS, OP_KV_GET, OP_KV_DELETE, OP_NFT_WITHDRAW,
                        OP_HASH_FN, OP_GETBLOCKINFO, OP_DECODEBLOCKINFO,
                        OP_FT_BALANCE, OP_FT_ITEM, OP_NFT_ITEM, OP_NFT_EXISTS} THEN
        IF ~hasContext THEN Fail(m, "CONTEXT_NOT_PRESENT")
        ELSE IF Len(m.stack) < 2 THEN Fail(m, "INVALID_STACK_OPERATION")
        ELSE IF opcode = OP_GETBLOCKINFO THEN ExecGetBlockInfo(m)
        ELSE IF opcode = OP_DECODEBLOCKINFO THEN ExecDecodeBlockInfo(m)
        ELSE IF opcode = OP_HASH_FN THEN ExecHashFn(m)
        ELSE IF opcode = OP_FT_BALANCE THEN ExecFtBalance(m)
        ELSE IF opcode = OP_NFT_EXISTS THEN ExecNftExists(m)
        ELSE IF opcode = OP_KV_EXISTS THEN ExecKvExists(m)
        ELSE IF opcode = OP_KV_GET THEN ExecKvGet(m)
        ELSE IF opcode = OP_KV_DELETE THEN ExecKvDelete(m)
        ELSE IF opcode = OP_FT_ITEM THEN ExecFtItem(m)
        ELSE IF opcode = OP_NFT_ITEM THEN ExecNftItem(m)
        ELSE ExecNftWithdraw(m, vout)
    ELSE IF opcode = OP_KV_PUT \/ opcode = OP_FT_WITHDRAW THEN
        IF ~hasContext THEN Fail(m, "CONTEXT_NOT_PRESENT")
        ELSE IF Len(m.stack) < 3 THEN Fail(m, "INVALID_STACK_OPERATION")
        ELSE IF opcode = OP_KV_PUT THEN ExecKvPut(m)
        ELSE ExecFtWithdraw(m, vout)
    ELSE Fail(m, "BAD_OPCODE")

\* the size limits after an instruction: stack and altstack together hold
\* at most MAX_STACK_SIZE elements
StackSizeCheckedStackOnly(r) ==
    IF r.kind = "next" /\ Len(r.m.stack) > MAX_STACK_SIZE
    THEN Fail(r.m, "STACK_SIZE")
    ELSE r

StackSizeChecked(r) ==
    IF r.kind = "next" /\ Len(r.m.stack) + Len(r.m.altstack) > MAX_STACK_SIZE
    THEN Fail(r.m, "STACK_SIZE")
    ELSE r

\* a loop that executes the instructions of a branch that is off
EvalStepNoSkip(script, pc, nOpCount, m, hasContext, vout, auth) ==
    LET op == GetScriptOp(script, pc)
        nOp1 == IF op.opcode > OP_16 THEN nOpCount + 1 ELSE nOpCount
        with(r) == [kind |-> r.kind, serror |-> r.serror, m |-> r.m, threw |-> r.threw,
                    pc |-> op.pc, nOpCount |-> nOp1]
    IN  IF ~op.ok THEN with(Fail(m, "BAD_OPCODE"))
        ELSE IF Len(op.vch) > MAX_SCRIPT_ELEMENT_SIZE THEN with(Fail(m, "PUSH_SIZE"))
        ELSE IF op.opcode > OP_16 /\ nOp1 > MAX_OPS_PER_SCRIPT THEN with(Fail(m, "OP_COUNT"))
        ELSE IF IsOpcodeDisabled(op.opcode) THEN with(Fail(m, "DISABLED_OPCODE"))
        ELSE
          with(StackSizeChecked(
                   IF 0 <= op.opcode /\ op.opcode <= OP_PUSHDATA4 THEN
                       IF ~CheckMinimalPush(op.vch, op.opcode) THEN Fail(m, "MINIMALDATA")
                       ELSE GoOn([m EXCEPT !.stack = Append(@, op.vch)])
                   ELSE ExecOpcode(m, op.opcode, all_true(m.vfExec), hasContext, vout,
                                   auth)))

\* One turn of the loop `while (pc < pend)`: read the instruction at pc and
\* execute it.  Gives the outcome of ExecOpcode together with the new pc
\* and the new count of non-push opcodes.
EvalStep(script, pc, nOpCount, m, hasContext, vout, auth) ==
    LET fExec == all_true(m.vfExec)
        op == GetScriptOp(script, pc)
        nOp1 == IF op.opcode > OP_16 THEN nOpCount + 1 ELSE nOpCount
        with(r) == [kind |-> r.kind, serror |-> r.serror, m |-> r.m, threw |-> r.threw,
                    pc |-> op.pc, nOpCount |-> nOp1]
    IN  IF ~op.ok THEN with(Fail(m, "BAD_OPCODE"))
        ELSE IF Len(op.vch) > MAX_SCRIPT_ELEMENT_SIZE THEN with(Fail(m, "PUSH_SIZE"))
        ELSE IF op.opcode > OP_16 /\ nOp1 > MAX_OPS_PER_SCRIPT THEN with(Fail(m, "OP_COUNT"))
        ELSE IF IsOpcodeDisabled(op.opcode) THEN with(Fail(m, "DISABLED_OPCODE"))
        ELSE
          with(StackSizeChecked(
                   IF fExec /\ 0 <= op.opcode /\ op.opcode <= OP_PUSHDATA4 THEN
                       IF ~CheckMinimalPush(op.vch, op.opcode) THEN Fail(m, "MINIMALDATA")
                       ELSE GoOn([m EXCEPT !.stack = Append(@, op.vch)])
                   ELSE IF fExec \/ (OP_IF <= op.opcode /\ op.opcode <= OP_ENDIF)
                        THEN ExecOpcode(m, op.opcode, fExec, hasContext, vout, auth)
                   ELSE GoOn(m)))

(***************************************************************************)
(* The inputs of a call of atomicalsconsensus_verify_script_avm.           *)
(***************************************************************************)
\* two token ids: 36 bytes each
Id1 == [i \in 1..ATOMICAL_REF_SIZE |-> 1]

Id2 == [i \in 1..ATOMICAL_REF_SIZE |-> 2]

\* the script of a list of instructions
RECURSIVE Concat(_)
Concat(ops) == IF Len(ops) = 0 THEN <<>> ELSE Head(ops) \o Concat(Tail(ops))

\* the lists of at most n elements of S
RECURSIVE SeqsUpTo(_, _)
SeqsUpTo(S, n) ==
    IF n = 0 THEN {<<>>}
    ELSE LET shorter == SeqsUpTo(S, n - 1)
         IN  shorter \cup {Append(q, x) : q \in shorter, x \in S}

\* CScript::push_int64: the push of the number n
push_int64(n) ==
    IF n = 0 - 1 \/ (n >= 1 /\ n <= 16) THEN <<n + (OP_1 - 1)>>
    ELSE IF n = 0 THEN <<OP_0>>
    ELSE PushData(serialize(n))

\* instructions of the unlock scripts: pushes of 0, 1 and negative zero,
\* OP_RESERVED, which IsPushOnly takes for a push, and one opcode that is
\* not a push
UnlockInstrs == {<<OP_0>>, <<OP_1>>, PushData(<<128>>), <<OP_RESERVED>>, <<OP_DUP>>}

\* instructions of the lock scripts of the verdict family
LockInstrs == {<<OP_1>>, <<OP_0>>, <<OP_DROP>>, <<OP_DUP>>, <<OP_RETURN>>}

\* token operations, each a group of instructions
FtAdd(id) == PushData(id) \o <<OP_FT_BALANCE_ADD>>

FtWithdraw(amount, outIdx, id) ==
    push_int64(amount) \o push_int64(outIdx) \o PushData(id) \o <<OP_FT_WITHDRAW>>

NftPut(id) == PushData(id) \o <<OP_NFT_PUT>>

NftWithdraw(outIdxBytes, id) ==
    PushData(outIdxBytes) \o PushData(id) \o <<OP_NFT_WITHDRAW>>

FtOps ==
    {FtAdd(Id1),
     FtWithdraw(2, 0, Id1), FtWithdraw(4, 0, Id1), FtWithdraw(0, 0, Id1),
     FtWithdraw(2, 1, Id1), FtWithdraw(INT_MAX + 1, 1, Id1), FtWithdraw(2, 2, Id1)}

NftOps ==
    {NftPut(Id1),
     NftWithdraw(<<>>, Id1),       \* output index 0, then the id
     NftWithdraw(Id2, Id1),        \* a 36-byte number where the index goes
     NftWithdraw([i \in 1..ATOMICAL_REF_SIZE |-> 0], Id1),  \* index 0 padded to 36 bytes
     NftWithdraw(Id1, <<>>)}       \* the id first, then output index 0

\* key-value operations, each a group of instructions; a read is followed
\* by OP_DROP so that the stack stays as it was
KvPut(ks, kn, v) == PushData(ks) \o PushData(kn) \o PushData(v) \o <<OP_KV_PUT>>

KvDelete(ks, kn) == PushData(ks) \o PushData(kn) \o <<OP_KV_DELETE>>

KvGet(ks, kn) == PushData(ks) \o PushData(kn) \o <<OP_KV_GET, OP_DROP>>

KvExists(ks, kn) == PushData(ks) \o PushData(kn) \o <<OP_KV_EXISTS, OP_DROP>>

\* a key of n bytes
KeyOfSize(n) == [i \in 1..n |-> 32]

KvOps ==
    {KvPut(<<32>>, <<32>>, <<33>>),
     KvPut(<<32>>, <<>>, <<33>>),                    \* the empty key
     KvPut(<<32>>, <<32>>, <<>>),                    \* the empty value
     KvPut(<<>>, <<32>>, <<34>>),                    \* the empty keyspace
     KvPut(KeyOfSize(maxStateKeySize), <<32>>, <<33>>),
     KvPut(<<32>>, KeyOfSize(maxStateKeySize + 1), <<33>>),
     KvDelete(<<32>>, <<32>>),
     KvDelete(<<32>>, <<>>),
     KvGet(<<32>>, <<32>>),
     KvGet(<<32>>, <<>>),
     KvGet(<<32>>, <<0>>),
     KvExists(<<32>>, <<32>>),
     KvExists(<<32>>, <<>>)}

\* enumeration operations, followed by OP_DROP
FtItem(index, type) == push_int64(index) \o push_int64(type) \o <<OP_FT_ITEM, OP_DROP>>

NftItem(index, type) == push_int64(index) \o push_int64(type) \o <<OP_NFT_ITEM, OP_DROP>>

\* the operations of the enumeration family, the incoming id being q
ItemOps(q) ==
    {FtAdd(q), FtItem(0, 0), FtItem(1, 0), FtItem(0, 1), FtItem(2, 0),
     NftPut(q), NftItem(0, 0), NftItem(1, 0), NftItem(0, 1), NftItem(0, 2)}

\* a header: version 2, time 100, nBits 0x1d00ffff, nonce 7
Header1 ==
    <<2, 0, 0, 0>> \o [i \in 1..32 |-> 17] \o [i \in 1..32 |-> 18]
        \o <<100, 0, 0, 0>> \o <<255, 255, 0, 29>> \o <<7, 0, 0, 0>>

\* the external state of the calls: the current height is 5, its header
\* is Header1
External1 == [headers |-> (<<5>> :> HexStr(Header1)), height |-> 5]

NoTokens ==
    [ftState |-> EmptyMap, ftStateIncoming |-> EmptyMap,
     nftState |-> EmptyMap, nftStateIncoming |-> EmptyMap,
     contractState |-> EmptyMap, contractStateExternal |-> External1]

\* a map with at most the one key k, its value drawn from vals
OneKeyMaps(k, vals) == {EmptyMap} \cup {MapPut(EmptyMap, k, v) : v \in vals}

\* the outpoint input 0 spends
Prevout1 == [txid |-> [i \in 1..32 |-> 7], n |-> 0]

\* the script of an output that pays
PayScript == <<OP_DUP, OP_DROP, OP_1>>

\* what a call without authorization gives besides the scripts and the
\* token maps: the outputs, with the values v, pay; no auth public key and
\* nothing signed
PlainCall(v) ==
    [hasContext |-> TRUE, asserts |-> TRUE, authPubKey |-> <<>>, prevout |-> Prevout1,
     spk |-> [i \in DOMAIN v |-> PayScript], signedVout |-> v,
     checker |-> [sigEncoding |-> TRUE, pubKeyEncoding |-> TRUE, signed |-> {}]]

\* verdict family: no tokens, one output
VerdictArgs ==
    {[unlockOps |-> u, unlockScript |-> Concat(u), lockScript |-> Concat(l),
      vout |-> <<3>>, tokens |-> NoTokens, call |-> PlainCall(<<3>>)] :
        u \in SeqsUpTo(UnlockInstrs, MaxUnlockOps), l \in SeqsUpTo(LockInstrs, MaxLockOps)}

\* FT family: the lock script is a list of FT operations and a final OP_1
FtArgs ==
    {[unlockOps |-> <<>>, unlockScript |-> <<>>, lockScript |-> Concat(l) \o <<OP_1>>,
      vout |-> v,
      tokens |-> [NoTokens EXCEPT !.ftState = fs, !.ftStateIncoming = fi],
      call |-> PlainCall(v)] :
        l \in SeqsUpTo(FtOps, MaxTokenOps),
        v \in {<<3>>, <<3, INT_MAX + 5>>},
        fs \in OneKeyMaps(HexStr(Id1), {2, INT_MAX + 9, U64_MAX}),
        fi \in OneKeyMaps(HexStr(Id1), {0, 1})}

\* NFT family: the lock script is a list of NFT operations, with or without
\* a final OP_1
NftArgs ==
    {[unlockOps |-> <<>>, unlockScript |-> <<>>, lockScript |-> Concat(l) \o tail,
      vout |-> <<3>>,
      tokens |-> [NoTokens EXCEPT !.nftState = ns, !.nftStateIncoming = ni],
      call |-> PlainCall(<<3>>)] :
        l \in SeqsUpTo(NftOps, MaxTokenOps),
        tail \in {<<>>, <<OP_1>>},
        ns \in OneKeyMaps(HexStr(Id1), {TRUE, FALSE}),
        ni \in OneKeyMaps(HexStr(Id1), {TRUE, FALSE})}

\* key-value family: the lock script is a list of key-value operations and
\* a final OP_1; the prior state is empty or holds one entry
KvArgs ==
    {[unlockOps |-> <<>>, unlockScript |-> <<>>, lockScript |-> Concat(l) \o <<OP_1>>,
      vout |-> <<3>>,
      tokens |-> [NoTokens EXCEPT !.contractState = cs],
      call |-> PlainCall(<<3>>)] :
        l \in SeqsUpTo(KvOps, MaxTokenOps),
        cs \in {EmptyMap,
                MapPut(EmptyMap, HexStr(<<32>>), MapPut(EmptyMap, HexStr(<<32>>), HexStr(<<35>>))),
                MapPut(EmptyMap, HexStr(<<32>>), MapPut(EmptyMap, HexStr(<<0>>), HexStr(<<35>>)))}}

\* a value that fills a state of one keyspace of one byte and one key of
\* one byte
FullValue == [i \in 1..(MAX_STATE_FINAL_BYTES - 2) |-> 51]

\* a key-value state of exactly MAX_STATE_FINAL_BYTES bytes: one keyspace of
\* one byte with one key of one byte
FullState ==
    MapPut(EmptyMap, HexStr(<<32>>),
           MapPut(EmptyMap, HexStr(<<32>>),
                  HexStr(FullValue)))

\* a value as large as a push may be, and one that fills the updates of a
\* state together with it under two keys of one keyspace
LargestValue == [i \in 1..MAX_SCRIPT_ELEMENT_SIZE |-> 51]

RestValue == [i \in 1..(MAX_STATE_UPDATE_BYTES - 3 - MAX_SCRIPT_ELEMENT_SIZE) |-> 51]

\* a third token id
Id3 == [i \in 1..ATOMICAL_REF_SIZE |-> 3]

\* full-state family: the prior key-value state is as large as a state may
\* be and two FTs are held, a third comes in; the lock script leaves the
\* state, adds an entry of two bytes, deletes the entry there is, adds
\* the third FT, deletes the entry and puts as many bytes under other
\* keys, or reads the entry
FullStateArgs ==
    {[unlockOps |-> <<>>, unlockScript |-> <<>>, lockScript |-> l \o <<OP_1>>,
      vout |-> <<3>>,
      tokens |-> [NoTokens EXCEPT !.contractState = FullState,
                                  !.ftState = MapPut(MapPut(EmptyMap, HexStr(Id1), 2),
                                                     HexStr(Id2), 2),
                                  !.ftStateIncoming = MapPut(EmptyMap, HexStr(Id3), 1)],
      call |-> PlainCall(<<3>>)] :
        l \in {<<>>, KvPut(<<32>>, <<33>>, <<34>>), KvDelete(<<32>>, <<32>>), FtAdd(Id3),
               KvPut(<<32>>, <<33>>, <<34>>) \o FtAdd(Id3),
               KvDelete(<<32>>, <<32>>) \o KvPut(<<32>>, <<33>>, LargestValue)
                   \o KvPut(<<32>>, <<34>>, RestValue),
               KvGet(<<32>>, <<32>>)}}

\* ScriptExecutionContext::createForTx
createForTx(tx, fullScript, pubKey) ==
    [tx |-> tx, _fullScript |-> fullScript, _pubKey |-> pubKey]

\* the context verify_script_avm makes for a call: the outputs of the
\* transaction have the values vout and the scripts spk
CallContext(unlockScript, lockScript, vout, spk, prevout, authPubKey) ==
    createForTx([prevout |-> prevout,
                 vout |-> [i \in DOMAIN vout |->
                              [nValue |-> vout[i], scriptPubKey |-> spk[i]]]],
                unlockScript \o lockScript, authPubKey)

\* an auth public key and a signature
Pk1 == [i \in 1..33 |-> 2]

Sig1 == <<48, 68, 2, 32>>

\* the script of an output that carries the signature sig
SigOpReturn(sig) == <<OP_RETURN, 3, 115, 105, 103>> \o PushData(sig)

\* lock scripts of the authorization family
AuthLocks ==
    {<<OP_CHECKAUTHSIG>>, <<OP_CHECKAUTHSIG, OP_DROP, OP_1>>, <<OP_1, OP_CHECKAUTHSIG, OP_DROP>>,
     <<OP_CHECKAUTHSIGVERIFY>>, <<OP_CHECKAUTHSIGVERIFY, OP_1>>, <<OP_1, OP_CHECKAUTHSIGVERIFY>>,
     <<OP_CHECKAUTHSIGVERIFY, OP_DROP, OP_1>>}

\* the outputs of the authorization family: one paying output of value
\* v, alone, before or after an output that carries Sig1
AuthOutputs(v) ==
    {[vout |-> <<v>>, spk |-> <<PayScript>>],
     [vout |-> <<v, 0>>, spk |-> <<PayScript, SigOpReturn(Sig1)>>],
     [vout |-> <<0, v>>, spk |-> <<SigOpReturn(Sig1), PayScript>>]}

\* the values of the outputs o with v0 as the value of the paying output
SignedVout(o, v0) ==
    [i \in DOMAIN o.vout |-> IF o.spk[i] = PayScript THEN v0 ELSE o.vout[i]]

\* authorization family: the holder of Pk1 signed, with Sig1, the message
\* of the call whose paying output has the value v0, the values signedVout;
\* the call made has the value v there, with or without the public key
AuthArgs ==
    {[unlockOps |-> <<>>, unlockScript |-> <<>>, lockScript |-> l,
      vout |-> o.vout, tokens |-> NoTokens,
      call |-> [hasContext |-> TRUE, asserts |-> TRUE, authPubKey |-> pk,
               prevout |-> Prevout1,
                spk |-> o.spk, signedVout |-> SignedVout(o, v0),
                checker |->
                    [sigEncoding |-> enc[1], pubKeyEncoding |-> enc[2],
                     signed |-> {[sig |-> Sig1, pubKey |-> Pk1,
                                  hash |-> CSHA256(getAuthMessage(
                                      CallContext(<<>>, l, SignedVout(o, v0),
                                                  o.spk, Prevout1, pk)))]}]]] :
        l \in AuthLocks,
        v0 \in {3, INT_MAX + 1},
        o \in UNION {AuthOutputs(v) : v \in {3, INT_MAX + 1, INT_MAX + 5}},
        pk \in {<<>>, Pk1},
        enc \in {<<TRUE, TRUE>>, <<FALSE, TRUE>>, <<TRUE, FALSE>>}}

\* operations that read, each followed by OP_DROP
FtCount(type) == push_int64(type) \o <<OP_FT_COUNT, OP_DROP>>

NftCount(type) == push_int64(type) \o <<OP_NFT_COUNT, OP_DROP>>

FtBalance(id, type) == PushData(id) \o push_int64(type) \o <<OP_FT_BALANCE, OP_DROP>>

NftExists(id, type) == PushData(id) \o push_int64(type) \o <<OP_NFT_EXISTS, OP_DROP>>

GetBlockInfo(height, field) ==
    push_int64(height) \o push_int64(field) \o <<OP_GETBLOCKINFO, OP_DROP>>

DecodeBlockInfo(header, field) ==
    PushData(header) \o push_int64(field) \o <<OP_DECODEBLOCKINFO, OP_DROP>>

HashOf(data, which) == PushData(data) \o push_int64(which) \o <<OP_HASH_FN, OP_DROP>>

ReadOps ==
    {FtCount(t) : t \in {0, 1, 2}} \cup {NftCount(t) : t \in {0, 1, 2}}
        \cup {FtBalance(id, t) : id \in {Id1, Id2}, t \in {0, 1, 2}}
        \cup {NftExists(id, t) : id \in {Id1, Id2}, t \in {0, 1, 2}}
        \cup {GetBlockInfo(h, f) : h \in {0, 5, 6}, f \in {0, 1, 6, 7, 8, 9}}
        \cup {DecodeBlockInfo(Header1, f) : f \in {0, 2, 4, 6, 7}}
        \cup {DecodeBlockInfo(SubBytes(Header1, 0, 79), 0)}
        \cup {HashOf(<<32>>, w) : w \in {0, 1, 3, 4}}

\* read family: one operation that reads and a final OP_1; two FTs are
\* held, one comes in, one NFT is held
ReadArgs ==
    {[unlockOps |-> <<>>, unlockScript |-> <<>>, lockScript |-> l \o <<OP_1>>,
      vout |-> <<3>>,
      tokens |-> [NoTokens EXCEPT !.ftState = MapPut(MapPut(EmptyMap, HexStr(Id1), 2),
                                                     HexStr(Id2), U64_MAX),
                                  !.ftStateIncoming = MapPut(EmptyMap, HexStr(Id1), 1),
                                  !.nftState = MapPut(EmptyMap, HexStr(Id1), TRUE)],
      call |-> PlainCall(<<3>>)] :
        l \in ReadOps}

\* the opcodes of the Atomicals Virtual Machine
AvmOpcodes ==
    {OP_KV_EXISTS, OP_KV_GET, OP_KV_PUT, OP_KV_DELETE,
     OP_FT_BALANCE_ADD, OP_FT_WITHDRAW, OP_FT_BALANCE, OP_FT_COUNT, OP_FT_ITEM,
     OP_NFT_PUT, OP_NFT_WITHDRAW, OP_NFT_EXISTS, OP_NFT_COUNT, OP_NFT_ITEM,
     OP_GETBLOCKINFO, OP_DECODEBLOCKINFO, OP_HASH_FN,
     OP_CHECKAUTHSIG, OP_CHECKAUTHSIGVERIFY}

\* calls of VerifyScriptAvm without a context: the lock script is one
\* opcode of the virtual machine, alone or after three pushes
DirectArgs ==
    {[unlockOps |-> <<>>, unlockScript |-> <<>>, lockScript |-> pushes \o <<opcode>>,
      vout |-> <<3>>, tokens |-> NoTokens,
      call |-> [PlainCall(<<3>>) EXCEPT !.hasContext = FALSE]] :
        pushes \in {<<>>, <<OP_1, OP_1, OP_1>>},
        opcode \in AvmOpcodes}

\* enumeration family: one FT and one NFT are held under the id p, one FT
\* and one NFT come in under the other id q
ItemArgs ==
    {[unlockOps |-> <<>>, unlockScript |-> <<>>, lockScript |-> Concat(l) \o <<OP_1>>,
      vout |-> <<3>>,
      tokens |-> [NoTokens EXCEPT !.ftState = MapPut(EmptyMap, HexStr(pq[1]), 2),
                                  !.ftStateIncoming = MapPut(EmptyMap, HexStr(pq[2]), 1),
                                  !.nftState = MapPut(EmptyMap, HexStr(pq[1]), TRUE),
                                  !.nftStateIncoming = MapPut(EmptyMap, HexStr(pq[2]), TRUE)],
      call |-> PlainCall(<<3>>)] :
        pq \in {<<Id1, Id2>>, <<Id2, Id1>>},
        l \in SeqsUpTo(ItemOps(Id1) \cup ItemOps(Id2), MaxTokenOps)}

(***************************************************************************)
(* The state of one call of atomicalsconsensus_verify_script_avm.          *)
(***************************************************************************)
VARIABLES
    args,            \* the inputs of the call
    phase,           \* where the call is
    stateContext,    \* the ScriptStateContext `state` of verify_script_avm
    stack,           \* the stack of VerifyScriptAvm, shared by both scripts
    altstack,        \* EvalScript locals
    vfExec,
    vfBools,         \* the stack of booleans vfExec stands for; the code does
                     \* not store it
    which,           \* the script EvalScript runs: "unlock" or "lock"
    pc,
    nOpCount,
    opCounter,
    serror,          \* tempScriptError
    serror_op_num,   \* *script_err_op_num
    verified,        \* what VerifyScriptAvm returned
    thrown,          \* the exception that left the entry point, if any
    result,          \* what the entry point returned; NoResult before
    err,             \* *err
    script_err,      \* *script_err
    out,             \* the output buffers written, by name
    earlier          \* the output buffers an earlier call wrote, NoCall if none

vars == <<args, phase, stateContext, stack, altstack, vfExec, vfBools, which, pc, nOpCount,
          opCounter, serror, serror_op_num, verified, thrown, result, err,
          script_err, out, earlier>>

\* the names of the variables of EvalScript and VerifyScriptAvm
evalVars == <<stack, altstack, vfExec, vfBools, which, pc, nOpCount, opCounter>>

NoResult == 0 - 1

\* there was no earlier call: no buffer written
NoCall == EmptyMap

\* nothing has been stored through a pointer that is not written yet
Unwritten == "unwritten"

\* the operation number before anything has written one
UnwrittenOpNum == 0 - 1

\* the context the default constructor makes
EmptyContext ==
    [ftState |-> EmptyMap, ftBalancesUpdates |-> EmptyMap, ftStateIncoming |-> EmptyMap,
     nftState |-> EmptyMap, nftBalancesUpdates |-> EmptyMap, nftStateIncoming |-> EmptyMap,
     contractState |-> EmptyMap, contractStateUpdates |-> EmptyMap,
     contractStateDeletes |-> EmptyMap,
     ftAddsSet |-> {}, nftPutsSet |-> {},
     ftWithdrawMap |-> EmptyMap, nftWithdrawMap |-> EmptyMap,
     external |-> NoExternal]

\* ScriptStateContext(ftState, ftStateIncoming, nftState, nftStateIncoming, ...)
\* before its validation
ScriptStateContext(t) ==
    [EmptyContext EXCEPT !.ftState = t.ftState, !.ftStateIncoming = t.ftStateIncoming,
                         !.nftState = t.nftState, !.nftStateIncoming = t.nftStateIncoming,
                         !.contractState = t.contractState,
                         !.external =
                             validateContractStateExternal(t.contractStateExternal).external]

\* the context made for the call
context ==
    CallContext(args.unlockScript, args.lockScript, args.vout, args.call.spk,
                args.call.prevout, args.call.authPubKey)

\* what the memory of an optional that holds no context may be read as
UndefinedContexts ==
    {CallContext(<<>>, <<>>, <<>>, <<>>, Prevout1, <<>>),
     CallContext(<<>>, <<>>, <<0>>, <<SigOpReturn(Sig1)>>, Prevout1, <<>>)}

\* what `context->` gives: the context if there is one; if there is none
\* the behaviour is undefined, the process ends or some object is read
Dereferenced ==
    IF args.call.hasContext THEN {[crash |-> FALSE, context |-> context]}
    ELSE {[crash |-> TRUE, context |-> context]}
             \cup {[crash |-> FALSE, context |-> c] : c \in UndefinedContexts}

currentScript == IF which = "unlock" THEN args.unlockScript ELSE args.lockScript

\* opcode count family: lock scripts of MAX_OPS_PER_SCRIPT - 1, of
\* MAX_OPS_PER_SCRIPT and of MAX_OPS_PER_SCRIPT + 1 non-push opcodes
OpCountArgs ==
    {[unlockOps |-> <<>>, unlockScript |-> <<>>, lockScript |-> l,
      vout |-> <<3>>, tokens |-> NoTokens, call |-> PlainCall(<<3>>)] :
        l \in {[i \in 1..(MAX_OPS_PER_SCRIPT - 1) |-> OP_NOP] \o <<OP_1>>,
               [i \in 1..MAX_OPS_PER_SCRIPT |-> OP_NOP],
               [i \in 1..(MAX_OPS_PER_SCRIPT + 1) |-> OP_NOP]}}

\* the instructions of the conditional scripts
CondInstrs ==
    {<<OP_1>>, <<OP_0>>, <<OP_IF>>, <<OP_NOTIF>>, <<OP_ELSE>>, <<OP_ENDIF>>, <<OP_RETURN>>}

\* conditional family: the lock script is a list of pushes of true and
\* false, conditionals and OP_RETURN, or one of a few longer scripts with
\* nested branches
CondArgs ==
    {[unlockOps |-> <<>>, unlockScript |-> <<>>, lockScript |-> l,
      vout |-> <<3>>, tokens |-> NoTokens, call |-> PlainCall(<<3>>)] :
        l \in {Concat(c) : c \in SeqsUpTo(CondInstrs, MaxCondOps)}
               \cup {<<OP_0, OP_IF, OP_IF, OP_ELSE, OP_ENDIF, OP_ELSE, OP_1, OP_ENDIF>>,
                     <<OP_1, OP_IF, OP_0, OP_IF, OP_0, OP_IF, OP_ELSE, OP_ENDIF, OP_ENDIF,
                       OP_ENDIF, OP_1>>,
                     <<OP_1, OP_1, OP_IF, OP_0, OP_NOTIF, OP_ELSE, OP_RETURN, OP_ENDIF,
                       OP_ENDIF>>,
                     <<OP_1, OP_IF, OP_1, OP_IF, OP_RETURN, OP_ENDIF, OP_ENDIF>>}}

\* the pushes of the indexes of OP_PICK and OP_ROLL: -1, 0, 1, 2, INT_MAX,
\* INT_MAX + 1, 2^32 and a zero that is not minimally encoded
PickIndexes ==
    {<<OP_1NEGATE>>, <<OP_0>>, <<OP_1>>, <<OP_1 + 1>>, PushData(serialize(INT_MAX)),
     PushData(serialize(INT_MAX + 1)), PushData(<<0, 0, 0, 0, 1>>), PushData(<<0, 0>>)}

\* index family: up to MaxPickDepth elements, an index and OP_PICK or
\* OP_ROLL, in a build with the asserts and in one without
PickArgs ==
    {[unlockOps |-> <<>>, unlockScript |-> <<>>,
      lockScript |-> Concat(under) \o index \o <<op>>,
      vout |-> <<3>>, tokens |-> NoTokens,
      call |-> [PlainCall(<<3>>) EXCEPT !.asserts = a]] :
        under \in SeqsUpTo({<<OP_1>>, <<OP_0>>}, MaxPickDepth), index \in PickIndexes,
        op \in {OP_PICK, OP_ROLL}, a \in BOOLEAN}

\* n times OP_1
Ones(n) == [i \in 1..n |-> OP_1]

\* cleanup family: deletes of keys of two keyspaces that are not there and
\* of the one key of a keyspace, a put and the delete of what it has put;
\* the prior state is empty or holds one key in each of two keyspaces
CleanupArgs ==
    {[unlockOps |-> <<>>, unlockScript |-> <<>>, lockScript |-> l \o <<OP_1>>,
      vout |-> <<3>>,
      tokens |-> [NoTokens EXCEPT !.contractState = cs],
      call |-> PlainCall(<<3>>)] :
        l \in {KvDelete(<<32>>, <<32>>) \o KvDelete(<<33>>, <<32>>),
               KvDelete(<<32>>, <<32>>),
               KvPut(<<32>>, <<32>>, <<33>>) \o KvDelete(<<32>>, <<32>>),
               KvPut(<<32>>, <<32>>, <<33>>) \o KvPut(<<33>>, <<32>>, <<33>>)
                   \o KvDelete(<<32>>, <<32>>) \o KvDelete(<<33>>, <<32>>)},
        cs \in {EmptyMap,
                MapPut(MapPut(EmptyMap, HexStr(<<32>>),
                              MapPut(EmptyMap, HexStr(<<32>>), HexStr(<<35>>))),
                       HexStr(<<33>>), MapPut(EmptyMap, HexStr(<<32>>), HexStr(<<35>>)))}}

\* the bytes of the operands of the shifts
ShiftBytes == {0, 128, 165, 255}

\* the operands: the byte strings of up to MaxShiftLen of these bytes
ShiftOperands == UNION {[1..n -> ShiftBytes] : n \in 0..MaxShiftLen}

\* shift family: an operand, a count from -1 to one more than the bits of
\* the longest operand, and OP_LSHIFT or OP_RSHIFT
ShiftArgs ==
    {[unlockOps |-> <<>>, unlockScript |-> <<>>,
      lockScript |-> PushData(x) \o push_int64(n) \o <<op>>,
      vout |-> <<3>>, tokens |-> NoTokens, call |-> PlainCall(<<3>>)] :
        x \in ShiftOperands, n \in (0 - 1)..(8 * MaxShiftLen + 1),
        op \in {OP_LSHIFT, OP_RSHIFT}}

\* the instructions put inside the branches
SkipInstrs ==
    {<<OP_1>>, KvPut(<<32>>, <<32>>, <<33>>), FtAdd(Id1), <<OP_DROP>>, <<OP_TOALTSTACK>>,
     <<OP_RETURN>>, <<OP_2MUL>>, <<OP_EQUAL>>}

\* the scripts around the branches: the branch is off by OP_IF, by OP_NOTIF,
\* after OP_ELSE, inside a branch that is off and with an element on the
\* stack; in the last the first branch is on and the second is off
SkipFrames ==
    {[pre |-> <<OP_0, OP_IF>>, mid |-> <<>>, post |-> <<OP_ENDIF, OP_1>>],
     [pre |-> <<OP_1, OP_NOTIF>>, mid |-> <<>>, post |-> <<OP_ENDIF, OP_1>>],
     [pre |-> <<OP_1, OP_IF, OP_ELSE>>, mid |-> <<>>, post |-> <<OP_ENDIF, OP_1>>],
     [pre |-> <<OP_0, OP_IF, OP_1, OP_IF>>, mid |-> <<>>,
      post |-> <<OP_ENDIF, OP_ENDIF, OP_1>>],
     [pre |-> <<OP_1, OP_0, OP_IF>>, mid |-> <<>>, post |-> <<OP_ENDIF>>],
     [pre |-> <<OP_1, OP_1, OP_IF>>, mid |-> <<OP_ELSE>>, post |-> <<OP_ENDIF>>]}

\* skipped branch family: a frame with up to MaxSkipOps instructions in its
\* branch (the same in both branches where there are two); the incoming
\* tokens hold Id1
SkipArgs ==
    {[unlockOps |-> <<>>, unlockScript |-> <<>>,
      lockScript |-> f.pre \o Concat(b) \o (IF f.mid = <<>> THEN <<>> ELSE f.mid \o Concat(b))
                        \o f.post,
      vout |-> <<3>>,
      tokens |-> [NoTokens EXCEPT !.ftStateIncoming = MapPut(EmptyMap, HexStr(Id1), 5)],
      call |-> PlainCall(<<3>>)] :
        f \in SkipFrames, b \in SeqsUpTo(SkipInstrs, MaxSkipOps)}

\* the operands the opcodes of the model take from the stack
Operands ==
    [op \in {OP_IF, OP_NOTIF, OP_VERIFY, OP_TOALTSTACK, OP_DROP, OP_DUP, OP_FT_COUNT,
              OP_NFT_COUNT, OP_NFT_PUT, OP_FT_BALANCE_ADD} |-> 1]
    @@ [op \in {OP_PICK, OP_ROLL, OP_EQUAL, OP_EQUALVERIFY, OP_KV_EXISTS, OP_KV_GET,
                 OP_KV_DELETE, OP_NFT_WITHDRAW, OP_HASH_FN, OP_GETBLOCKINFO,
                 OP_DECODEBLOCKINFO, OP_FT_BALANCE, OP_FT_ITEM, OP_NFT_ITEM,
                 OP_NFT_EXISTS, OP_LSHIFT, OP_RSHIFT} |-> 2]
    @@ [op \in {OP_3DUP, OP_KV_PUT, OP_FT_WITHDRAW} |-> 3]

\* short stack family: up to MaxShortDepth elements and one opcode that
\* takes operands, or OP_FROMALTSTACK
ShortStackArgs ==
    {[unlockOps |-> <<>>, unlockScript |-> <<>>,
      lockScript |-> Ones(n) \o <<op>>,
      vout |-> <<3>>, tokens |-> NoTokens, call |-> PlainCall(<<3>>)] :
        n \in 0..MaxShortDepth, op \in DOMAIN Operands \cup {OP_FROMALTSTACK}}

\* stack depth family: scripts that bring the stack and the altstack to
\* MAX_STACK_SIZE elements and to one more
StackDepthArgs ==
    {[unlockOps |-> [i \in 1..Len(s.u) |-> <<OP_1>>], unlockScript |-> s.u,
      lockScript |-> s.l,
      vout |-> <<3>>, tokens |-> NoTokens, call |-> PlainCall(<<3>>)] :
        s \in {[u |-> <<>>, l |-> Ones(MAX_STACK_SIZE)],
               [u |-> <<>>, l |-> Ones(MAX_STACK_SIZE + 1)],
               [u |-> <<OP_1>>, l |-> Ones(MAX_STACK_SIZE)],
               [u |-> <<>>, l |-> <<OP_1, OP_TOALTSTACK>> \o Ones(MAX_STACK_SIZE)],
               [u |-> <<>>, l |-> <<OP_1, OP_TOALTSTACK>> \o Ones(MAX_STACK_SIZE - 1)
                                     \o <<OP_FROMALTSTACK>>],
               [u |-> <<>>, l |-> Ones(MAX_STACK_SIZE - 2) \o <<OP_3DUP>>]}}

\* The entry point has been called: *err is set, the CBOR inputs are
\* parsed.  Or, for a call without a context, VerifyScriptAvm has been
\* called with std::nullopt and a state context made from the maps.
Init ==
    /\ args \in VerdictArgs \cup FtArgs \cup NftArgs \cup KvArgs \cup ItemArgs \cup AuthArgs
                  \cup ReadArgs \cup DirectArgs \cup FullStateArgs
                \cup OpCountArgs \cup StackDepthArgs \cup CondArgs \cup PickArgs
                  \cup ShortStackArgs \cup SkipArgs \cup CleanupArgs
                  \cup ShiftArgs
    /\ phase = IF args.call.hasContext THEN "entry" ELSE "verify"
    /\ stateContext = IF args.call.hasContext THEN EmptyContext
                      ELSE ScriptStateContext(args.tokens)
    /\ stack = <<>>
    /\ altstack = <<>>
    /\ vfExec = ConditionStackInit
    /\ vfBools = <<>>
    /\ which = "unlock"
    /\ pc = 0
    /\ nOpCount = 0
    /\ opCounter = 0
    /\ serror = "OK"
    /\ serror_op_num = UnwrittenOpNum
    /\ verified = FALSE
    /\ thrown = "none"
    /\ result = NoResult
    /\ err = "atomicalsconsensus_ERR_OK"
    /\ script_err = Unwritten
    /\ out = EmptyMap
    /\ earlier = NoCall

\* verify_script_avm up to the construction of `state`: the constructor
\* validates the incoming maps and may throw
ConstructStateContext ==
    /\ phase = "entry"
    /\ LET sc == ScriptStateContext(args.tokens)
           external == validateContractStateExternal(args.tokens.contractStateExternal)
           ex == IF external.threw # "none" THEN external.threw
                 ELSE performValidateStateRestrictions(sc)
       IN  IF ex # "none"
           THEN /\ phase' = "threw"
                /\ thrown' = ex
                /\ UNCHANGED stateContext
           ELSE /\ phase' = "verify"
                /\ stateContext' = sc
                /\ UNCHANGED thrown
    /\ err' = "atomicalsconsensus_ERR_OK"
    /\ UNCHANGED <<args, earlier, evalVars, serror, serror_op_num, verified, result, script_err, out>>

\* VerifyScriptAvm up to the first EvalScript
VerifyScriptAvmBegin ==
    /\ phase = "verify"
    /\ serror_op_num' = 0
    /\ stack' = <<>>
    /\ which' = "unlock"
    /\ IF ~IsPushOnly(args.unlockScript)
       THEN /\ serror' = "SIG_PUSHONLY"
            /\ verified' = FALSE
            /\ phase' = "verified"
       ELSE /\ serror' = "UNKNOWN"
            /\ phase' = "evalstart"
            /\ UNCHANGED verified
    /\ UNCHANGED <<args, earlier, stateContext, altstack, vfExec, vfBools, pc, nOpCount,
                   opCounter,
                   thrown, result, err, script_err, out>>

\* a set_error_op_num that writes nothing
set_error_op_numKeeps(ret, num) == ret

\* script_error.h set_error_op_num: what *ret holds after the call; the
\* entry point gives a pointer that is not null
set_error_op_num(ret, num) == num

\* EvalScript before its loop
EvalScriptBegin ==
    /\ phase = "evalstart"
    /\ pc' = 0
    /\ vfExec' = ConditionStackInit
    /\ vfBools' = <<>>
    /\ altstack' = <<>>
    /\ serror_op_num' = set_error_op_num(serror_op_num, 0)
    /\ nOpCount' = 0
    /\ opCounter' = 0
    /\ IF Len(currentScript) > MAX_SCRIPT_SIZE
       THEN /\ serror' = "SCRIPT_SIZE"
            /\ verified' = FALSE
            /\ phase' = "verified"
       ELSE /\ serror' = "UNKNOWN"
            /\ phase' = "eval"
            /\ UNCHANGED verified
    /\ UNCHANGED <<args, earlier, stateContext, stack, which, thrown, result, err, script_err, out>>

\* the stack of booleans after a turn of the loop that has gone through one
\* of the opcodes of the condition stack: OP_IF and OP_NOTIF add the value found or, in a branch
\* that is off, false; OP_ELSE turns the last one over; OP_ENDIF removes it
BoolsAfter(bools, op, fExec, stk) ==
    IF op.opcode \in {OP_IF, OP_NOTIF}
    THEN Append(bools, fExec /\ (CastToBool(stacktop(stk, -1)) # (op.opcode = OP_NOTIF)))
    ELSE IF op.opcode = OP_ELSE
    THEN [bools EXCEPT ![Len(bools)] = ~@]
    ELSE SubSeq(bools, 1, Len(bools) - 1)

\* one turn of the loop of EvalScript.  A false return of EvalScript makes
\* VerifyScriptAvm return false at once.
EvalScriptStep ==
    /\ phase = "eval"
    /\ pc < Len(currentScript)
    /\ \E deref \in Dereferenced :
       \E r \in {EvalStep(currentScript, pc, nOpCount,
                          [stack |-> stack, altstack |-> altstack, vfExec |-> vfExec,
                           sc |-> stateContext],
                          args.call.hasContext, args.vout,
                          [deref |-> deref, checker |-> args.call.checker,
                           asserts |-> args.call.asserts])} :
           /\ serror_op_num' = set_error_op_num(serror_op_num, opCounter)
           /\ opCounter' = opCounter + 1
           /\ pc' = r.pc
           /\ nOpCount' = r.nOpCount
           /\ stack' = r.m.stack
           /\ altstack' = r.m.altstack
           /\ vfExec' = r.m.vfExec
           /\ vfBools' = IF /\ r.kind = "next"
                            /\ GetScriptOp(currentScript, pc).opcode
                                  \in {OP_IF, OP_NOTIF, OP_ELSE, OP_ENDIF}
                         THEN BoolsAfter(vfBools, GetScriptOp(currentScript, pc),
                                         all_true(vfExec), stack)
                         ELSE vfBools
           /\ stateContext' = r.m.sc
           /\ thrown' = r.threw
           /\ serror' = IF r.kind \in {"next", "threw", "crashed"} THEN serror
                        ELSE r.serror
           /\ phase' = CASE r.kind = "next" -> "eval"
                         [] r.kind = "true" -> "evalret"
                         [] r.kind = "false" -> "verified"
                         [] r.kind = "threw" -> "threw"
                         [] r.kind = "crashed" -> "crashed"
           /\ verified' = FALSE
    /\ UNCHANGED <<args, earlier, which, result, err, script_err, out>>

\* an end of EvalScript that does not look at the condition stack
EvalScriptEndNoBalance ==
    /\ phase = "eval"
    /\ pc >= Len(currentScript)
    /\ serror' = "OK"
    /\ phase' = "evalret"
    /\ verified' = FALSE
    /\ UNCHANGED <<args, earlier, stateContext, evalVars, serror_op_num, thrown, result, err,
                   script_err, out>>

\* EvalScript after its loop
EvalScriptEnd ==
    /\ phase = "eval"
    /\ pc >= Len(currentScript)
    /\ IF ~empty(vfExec)
       THEN /\ serror' = "UNBALANCED_CONDITIONAL"
            /\ phase' = "verified"
       ELSE /\ serror' = "OK"
            /\ phase' = "evalret"
    /\ verified' = FALSE
    /\ UNCHANGED <<args, earlier, stateContext, evalVars, serror_op_num, thrown, result, err,
                   script_err, out>>

\* VerifyScriptAvm after the unlock script evaluated to true
VerifyScriptAvmAfterUnlock ==
    /\ phase = "evalret"
    /\ which = "unlock"
    /\ which' = "lock"
    /\ phase' = "evalstart"
    /\ UNCHANGED <<args, earlier, stateContext, stack, altstack, vfExec, vfBools, pc, nOpCount,
                   opCounter,
                   serror, serror_op_num, verified, thrown, result, err, script_err, out>>

\* VerifyScriptAvmAfterLock without the clean-stack test
VerifyScriptAvmAfterLockNoCleanStack ==
    /\ phase = "evalret"
    /\ which = "lock"
    /\ phase' = "verified"
    /\ IF Len(stack) = 0 THEN serror' = "EVAL_FALSE" /\ verified' = FALSE
       ELSE IF ~CastToBool(stack[Len(stack)]) THEN serror' = "EVAL_FALSE" /\ verified' = FALSE
       ELSE serror' = "OK" /\ verified' = TRUE
    /\ UNCHANGED <<args, earlier, stateContext, evalVars, serror_op_num, thrown, result, err,
                   script_err, out>>

\* VerifyScriptAvm after the lock script evaluated to true: the verdict
VerifyScriptAvmAfterLock ==
    /\ phase = "evalret"
    /\ which = "lock"
    /\ phase' = "verified"
    /\ IF Len(stack) = 0 THEN serror' = "EVAL_FALSE" /\ verified' = FALSE
       ELSE IF ~CastToBool(stack[Len(stack)]) THEN serror' = "EVAL_FALSE" /\ verified' = FALSE
       ELSE IF Len(stack) # 1 THEN serror' = "CLEANSTACK" /\ verified' = FALSE
       ELSE serror' = "OK" /\ verified' = TRUE
    /\ UNCHANGED <<args, earlier, stateContext, evalVars, serror_op_num, thrown, result, err,
                   script_err, out>>

\* the 32 bytes at prevStateHash
prevStateHash == [i \in 1..32 |-> 0]

\* the result buffers, from the getters of the context, and the state hash
\* computed from them and from the incoming maps given to the call
Outputs(sc) ==
    [stateFinal |-> sc.contractState,
     stateUpdates |-> sc.contractStateUpdates,
     stateDeletes |-> sc.contractStateDeletes,
     ftBalancesResult |-> sc.ftState,
     ftBalancesUpdatesResult |-> sc.ftBalancesUpdates,
     nftBalancesResult |-> sc.nftState,
     nftBalancesUpdatesResult |-> sc.nftBalancesUpdates,
     ftWithdraws |-> encodeFtWithdrawMap(sc),
     nftWithdraws |-> encodeNftWithdrawMap(sc),
     ftBalancesAdded |-> encodeFtIncomingBalancesAddedMap(sc),
     nftPuts |-> encodeNftIncomingPutsMap(sc),
     stateHash |->
         CalculateStateHash(prevStateHash, sc.contractState, sc.contractStateUpdates,
                            sc.contractStateDeletes, args.tokens.ftStateIncoming,
                            args.tokens.nftStateIncoming, sc.ftState, sc.ftBalancesUpdates,
                            sc.nftState, sc.nftBalancesUpdates, encodeFtWithdrawMap(sc),
                            encodeNftWithdrawMap(sc))]

\* VerifyScriptReturn with the result buffers copied before the result is
\* tested
VerifyScriptReturnCopiesFirst ==
    /\ phase = "verified"
    /\ args.call.hasContext
    /\ script_err' = serror
    /\ out' = Outputs(stateContext)
    /\ IF verified
       THEN phase' = "finalize" /\ UNCHANGED result
       ELSE phase' = "done" /\ result' = 0
    /\ UNCHANGED <<args, earlier, stateContext, evalVars, serror, serror_op_num, verified, thrown,
                   err>>

\* the end of verify_script_avm and the test of its result in the entry
\* point: a result other than 1 is returned at once
VerifyScriptReturn ==
    /\ phase = "verified"
    /\ args.call.hasContext
    /\ script_err' = serror
    /\ IF verified
       THEN phase' = "finalize" /\ UNCHANGED result
       ELSE phase' = "done" /\ result' = 0
    /\ UNCHANGED <<args, earlier, stateContext, evalVars, serror, serror_op_num, verified, thrown,
                   err, out>>

\* the entry point after a verification that succeeded: cleanup, the final
\* validation, then every result buffer and the state hash.  The exceptions
\* of the validation are thrown as pointers; the handlers of the entry
\* point catch objects by reference and so catch none of them.
Finalize ==
    /\ phase = "finalize"
    /\ \E c \in cleanupStateAndBalances(stateContext) :
          IF c.crash
          THEN /\ phase' = "crashed"
               /\ UNCHANGED <<stateContext, thrown, result, out>>
          ELSE LET ex == validateFinalStateRestrictions(c.sc)
               IN  /\ stateContext' = c.sc
                   /\ IF ex # "none"
                      THEN /\ phase' = "threw"
                           /\ thrown' = ex
                           /\ UNCHANGED <<result, out>>
                      ELSE /\ phase' = "done"
                           /\ out' = Outputs(c.sc)
                           /\ result' = 1
                           /\ UNCHANGED thrown
    /\ UNCHANGED <<args, earlier, evalVars, serror, serror_op_num, verified, err, script_err>>

\* the calls the caller chains: one output, nothing incoming, an empty
\* key-value state, and a lock script of at most one put
ChainedCall(a) ==
    /\ a.vout = <<3>>
    /\ a.tokens.ftStateIncoming = EmptyMap
    /\ a.tokens.nftStateIncoming = EmptyMap
    /\ a.tokens.contractState = EmptyMap
    /\ a.lockScript \in {<<OP_1>>,
                          KvPut(<<32>>, <<32>>, <<33>>) \o <<OP_1>>,
                          KvPut(<<32>>, <<32>>, <<>>) \o <<OP_1>>}

\* the caller, a call having returned 1, calls the entry point again with
\* the same prevStateHash and keeps what the first call wrote
CallAgain ==
    /\ phase = "done"
    /\ result = 1
    /\ earlier = NoCall
    /\ ChainedCall(args)
    /\ earlier' = out
    /\ args' \in {a \in FtArgs \cup NftArgs \cup KvArgs : ChainedCall(a)}
    /\ phase' = "entry"
    /\ stateContext' = EmptyContext
    /\ stack' = <<>>
    /\ altstack' = <<>>
    /\ vfExec' = ConditionStackInit
    /\ vfBools' = <<>>
    /\ which' = "unlock"
    /\ pc' = 0
    /\ nOpCount' = 0
    /\ opCounter' = 0
    /\ serror' = "OK"
    /\ serror_op_num' = UnwrittenOpNum
    /\ verified' = FALSE
    /\ thrown' = "none"
    /\ result' = NoResult
    /\ err' = "atomicalsconsensus_ERR_OK"
    /\ script_err' = Unwritten
    /\ out' = EmptyMap

Next ==
    \/ ConstructStateContext
    \/ VerifyScriptAvmBegin
    \/ EvalScriptBegin
    \/ EvalScriptStep
    \/ EvalScriptEnd
    \/ VerifyScriptAvmAfterUnlock
    \/ VerifyScriptAvmAfterLock
    \/ VerifyScriptReturn
    \/ Finalize
    \/ CallAgain

Spec == Init /\ [][Next]_vars

(***************************************************************************)
(* Properties.                                                             *)
(***************************************************************************)
\* truth of a stack element as the specification words it: some byte is
\* not zero, other than a lone sign bit in the last byte
CastsTrue(v) == \E i \in 1..Len(v) : v[i] # 0 /\ ~(i = Len(v) /\ v[i] = 128)

\* C1: the verdict of VerifyScriptAvm once unlock and then lock have been
\* evaluated on one stack: ok exactly when the final stack holds one element
\* and it casts to true; an empty stack or a false top gives EVAL_FALSE; a
\* true top with more than one element gives CLEANSTACK.
C1_Verdict ==
    [][(phase = "evalret" /\ which = "lock" /\ phase' = "verified") =>
         /\ stack' = stack
         /\ verified' <=> (Len(stack) = 1 /\ CastsTrue(stack[1]))
         /\ verified' => serror' = "OK"
         /\ (Len(stack) = 0 \/ (Len(stack) > 0 /\ ~CastsTrue(stack[Len(stack)])))
               => (~verified' /\ serror' = "EVAL_FALSE")
         /\ (Len(stack) > 1 /\ CastsTrue(stack[Len(stack)]))
               => (~verified' /\ serror' = "CLEANSTACK")]_vars

\* a true top above another element was refused with CLEANSTACK
C1_Witness ==
    /\ phase = "done"
    /\ script_err = "CLEANSTACK"
    /\ result = 0
    /\ Len(stack) = 2
    /\ CastsTrue(stack[2])

\* the unlock script holds an instruction whose opcode is above OP_16
UnlockHasNonPush == \E i \in 1..Len(args.unlockOps) : args.unlockOps[i][1] > OP_16

\* C2: an unlock script with an opcode above OP_16 makes the verification
\* fail with SIG_PUSHONLY, no opcode of either script having been
\* evaluated: the stack is empty and the context is as constructed.
C2_SigPushOnly ==
    (UnlockHasNonPush /\ phase \notin {"entry", "verify", "threw"}) =>
        /\ phase \in {"verified", "done"}
        /\ serror = "SIG_PUSHONLY"
        /\ ~verified
        /\ stack = <<>>
        /\ opCounter = 0
        /\ stateContext = ScriptStateContext(args.tokens)
        /\ phase = "done" => (result = 0 /\ script_err = "SIG_PUSHONLY")

\* a script of a push followed by a non-push was refused, the push not made
C2_Witness ==
    /\ phase = "done"
    /\ args.unlockOps = <<<<OP_1>>, <<OP_DUP>>>>
    /\ script_err = "SIG_PUSHONLY"
    /\ stack = <<>>

\* C3: when the script verification fails, whether by a script error in
\* either script or by the final-stack rule, the entry point writes none
\* of its result buffers and no state hash.
C3_NoOutputOnFailure ==
    (phase = "done" /\ result # 1) => (out = EmptyMap /\ ~verified /\ script_err # "OK")

\* a run that changed the context and then failed
C3_Witness ==
    /\ phase = "done"
    /\ result = 0
    /\ stateContext.ftBalancesUpdates # EmptyMap
    /\ stateContext.ftAddsSet # {}
    /\ out = EmptyMap

\* the integer a stack element encodes: little-endian magnitude, the sign
\* in the top bit of the last byte
NumOf(b) ==
    IF Len(b) = 0 THEN 0
    ELSE LET mag == MagValue([i \in 1..Len(b) |-> IF i = Len(b) THEN b[i] % 128 ELSE b[i]])
         IN  IF b[Len(b)] >= 128 THEN 0 - mag ELSE mag

\* the opcode about to be executed, when the loop is at an instruction
\* that can be read and no enclosing branch is off
ExecutingOpcode(opcode) ==
    /\ phase = "eval"
    /\ pc < Len(currentScript)
    /\ all_true(vfExec)
    /\ GetScriptOp(currentScript, pc).ok
    /\ GetScriptOp(currentScript, pc).opcode = opcode

\* C4: OP_FT_WITHDRAW on (amount, outIdx, atomref) succeeds only if
\* outIdx < outputs.len(), 0 < amount <= outputs[outIdx].value and
\* ft[id] >= amount; on success ft[id] goes down by exactly the amount on
\* the stack, the entry is removed at 0, and ftUpdates[id] is the new
\* balance.
C4_FtWithdrawExact ==
    [][(ExecutingOpcode(OP_FT_WITHDRAW) /\ Len(stack) >= 3 /\ phase' = "eval") =>
         LET amount == NumOf(stack[Len(stack) - 2])
             outIdx == NumOf(stack[Len(stack) - 1])
             k == GetHex(stack[Len(stack)])
             ft == stateContext.ftState
         IN  /\ outIdx >= 0 /\ outIdx < Len(args.vout)
             /\ 0 < amount /\ amount <= args.vout[outIdx + 1]
             /\ k \in DOMAIN ft /\ ft[k] >= amount
             /\ IF ft[k] - amount = 0 THEN k \notin DOMAIN stateContext'.ftState
                ELSE /\ k \in DOMAIN stateContext'.ftState
                     /\ stateContext'.ftState[k] = ft[k] - amount
             /\ k \in DOMAIN stateContext'.ftBalancesUpdates
             /\ stateContext'.ftBalancesUpdates[k] = ft[k] - amount]_vars

\* the number a string of decimal digits reads as
RECURSIVE DecimalOf(_)
DecimalOf(d) ==
    IF Len(d) = 0 THEN 0
    ELSE 10 * DecimalOf(SubSeq(d, 1, Len(d) - 1)) + d[Len(d)]

\* C5: at the end of a successful run every FT withdraw intent
\* (id, outIdx, amt) written has outIdx < outputs.len() and
\* 0 < amt <= outputs[outIdx].value.
C5_WithdrawIntentsCovered ==
    (phase = "done" /\ result = 1) =>
        \A k \in DOMAIN out.ftWithdraws : \A d \in DOMAIN out.ftWithdraws[k] :
            LET outIdx == DecimalOf(d)
            IN  /\ outIdx >= 0 /\ outIdx < Len(args.vout)
                /\ 0 < out.ftWithdraws[k][d]
                /\ out.ftWithdraws[k][d] <= args.vout[outIdx + 1]

\* a successful run that wrote a withdraw intent for the second output
C5_Witness ==
    /\ phase = "done"
    /\ result = 1
    /\ HexStr(Id1) \in DOMAIN out.ftWithdraws
    /\ <<1>> \in DOMAIN out.ftWithdraws[HexStr(Id1)]

\* C6: OP_NFT_WITHDRAW on (outIdx, atomref) with a 36-byte atomref,
\* outIdx < outputs.len() and nft[id] present succeeds: nft[id] is removed
\* and the intent nftWithdraws[id] = outIdx is recorded.
C6_NftWithdrawSucceeds ==
    [][(/\ ExecutingOpcode(OP_NFT_WITHDRAW)
        /\ Len(stack) >= 2
        /\ Len(stack[Len(stack)]) = ATOMICAL_REF_SIZE
        /\ stack[Len(stack) - 1] = serialize(NumOf(stack[Len(stack) - 1]))
        /\ NumOf(stack[Len(stack) - 1]) >= 0
        /\ NumOf(stack[Len(stack) - 1]) < Len(args.vout)
        /\ GetHex(stack[Len(stack)]) \in DOMAIN stateContext.nftState) =>
         LET id == stack[Len(stack)]
         IN  /\ phase' = "eval"
             /\ GetHex(id) \notin DOMAIN stateContext'.nftState
             /\ id \in DOMAIN stateContext'.nftWithdrawMap
             /\ stateContext'.nftWithdrawMap[id] = NumOf(stack[Len(stack) - 1])]_vars

\* C7: OP_FT_BALANCE_ADD succeeds at most once per token id in one
\* execution: it fails with INVALID_AVM_FT_BALANCE_ADD_INVALID if the id was
\* already consumed, is not in ftIncoming or has incoming amount 0;
\* otherwise it succeeds, ft[id] becomes the sum of the balance and the full
\* incoming amount, and the id is recorded as added.
C7_FtBalanceAddOnce ==
    [][(/\ ExecutingOpcode(OP_FT_BALANCE_ADD)
        /\ Len(stack) >= 1
        /\ Len(stack[Len(stack)]) = ATOMICAL_REF_SIZE) =>
         LET id == stack[Len(stack)]
             k == GetHex(id)
             incoming == stateContext.ftStateIncoming
             before == IF k \in DOMAIN stateContext.ftState
                       THEN stateContext.ftState[k] ELSE 0
         IN  IF id \in stateContext.ftAddsSet \/ k \notin DOMAIN incoming
                \/ incoming[k] = 0
             THEN /\ phase' = "verified"
                  /\ serror' = "INVALID_AVM_FT_BALANCE_ADD_INVALID"
             ELSE /\ phase' = "eval"
                  /\ k \in DOMAIN stateContext'.ftState
                  /\ stateContext'.ftState[k] = before + incoming[k]
                  /\ id \in stateContext'.ftAddsSet]_vars

\* the lock script [PUSH id OP_NFT_PUT PUSH id OP_NFT_PUT] run with
\* nftIncoming = {id: true}
PutTwiceRun ==
    /\ args.lockScript = NftPut(Id1) \o NftPut(Id1)
    /\ args.unlockScript = <<>>
    /\ args.tokens.nftStateIncoming = MapPut(EmptyMap, HexStr(Id1), TRUE)

\* C8: with nftIncoming = {id: true} the lock script
\* [PUSH id OP_NFT_PUT PUSH id OP_NFT_PUT] fails at the second OP_NFT_PUT,
\* its fourth instruction, with INVALID_AVM_NFT_PUT_INVALID; and in every run
\* an OP_NFT_PUT that succeeds is the first for its id.
C8_NftPutOnce ==
    /\ []((PutTwiceRun /\ phase = "done") =>
            /\ result = 0
            /\ script_err = "INVALID_AVM_NFT_PUT_INVALID"
            /\ serror_op_num = 3)
    /\ [][(/\ ExecutingOpcode(OP_NFT_PUT)
           /\ Len(stack) >= 1
           /\ phase' = "eval") =>
            /\ stack[Len(stack)] \notin stateContext.nftPutsSet
            /\ stack[Len(stack)] \in stateContext'.nftPutsSet]_vars

\* the run of the two puts ended, refused at the second, the first recorded
C8_Witness ==
    /\ PutTwiceRun
    /\ phase = "done"
    /\ script_err = "INVALID_AVM_NFT_PUT_INVALID"
    /\ Id1 \in stateContext.nftPutsSet
    /\ HexStr(Id1) \in DOMAIN stateContext.nftState

\* C9: after a successful run every id in ftUpdates either is in ftFinal
\* with the same balance, or has ftUpdates[id] = 0.
C9_FtUpdatesMatchFinal ==
    (phase = "done" /\ result = 1) =>
        \A k \in DOMAIN out.ftBalancesUpdatesResult :
            \/ /\ k \in DOMAIN out.ftBalancesResult
               /\ out.ftBalancesResult[k] = out.ftBalancesUpdatesResult[k]
            \/ out.ftBalancesUpdatesResult[k] = 0

\* a successful run in which an add was followed by a withdrawal and the id
\* is left with a balance
C9_Witness ==
    /\ phase = "done"
    /\ result = 1
    /\ Id1 \in stateContext.ftAddsSet
    /\ Id1 \in DOMAIN stateContext.ftWithdrawMap
    /\ HexStr(Id1) \in DOMAIN out.ftBalancesUpdatesResult
    /\ HexStr(Id1) \in DOMAIN out.ftBalancesResult
    /\ out.ftBalancesUpdatesResult[HexStr(Id1)] > 0

\* C10: after a successful run every id with nftUpdates[id] = true is in
\* nftFinal and every id with nftUpdates[id] = false is absent from it.
C10_NftUpdatesMatchFinal ==
    (phase = "done" /\ result = 1) =>
        \A k \in DOMAIN out.nftBalancesUpdatesResult :
            /\ out.nftBalancesUpdatesResult[k] => k \in DOMAIN out.nftBalancesResult
            /\ ~out.nftBalancesUpdatesResult[k] => k \notin DOMAIN out.nftBalancesResult

\* a successful run that put an NFT the contract did not hold
C10_Witness ==
    /\ phase = "done"
    /\ result = 1
    /\ args.tokens.nftState = EmptyMap
    /\ HexStr(Id1) \in DOMAIN out.nftBalancesUpdatesResult
    /\ out.nftBalancesUpdatesResult[HexStr(Id1)]
    /\ HexStr(Id1) \in DOMAIN out.nftPuts

\* (keyspace, key) is an entry of a two-level map
InKv(kv, ks, kn) == ks \in DOMAIN kv /\ kn \in DOMAIN kv[ks]

\* the name of a keyspace or key in the maps: its hex string, "00" for the
\* empty byte string
KvName(bytes) == IF Len(bytes) = 0 THEN <<0, 0>> ELSE HexStr(bytes)

\* no entry marked deleted is in the state or in the updates
DeletesDisjoint(kv, updates, deletes) ==
    \A ks \in DOMAIN deletes : \A kn \in DOMAIN deletes[ks] :
        ~InKv(kv, ks, kn) /\ ~InKv(updates, ks, kn)

\* C11: at every point of a run, and in the results emitted, every
\* (keyspace, key) recorded in kvDeletes is absent from kvFinal and from
\* kvUpdates; an OP_KV_PUT that succeeds leaves no delete marker for its
\* key, an OP_KV_DELETE leaves its key out of kv and kvUpdates and marked.
C11_KvDeletesDisjoint ==
    /\ [](/\ DeletesDisjoint(stateContext.contractState,
                             stateContext.contractStateUpdates,
                             stateContext.contractStateDeletes)
          /\ (phase = "done" /\ result = 1) =>
                DeletesDisjoint(out.stateFinal, out.stateUpdates, out.stateDeletes))
    /\ [][(/\ ExecutingOpcode(OP_KV_PUT)
           /\ Len(stack) >= 3
           /\ phase' = "eval") =>
            LET ks == KvName(stack[Len(stack) - 2])
                kn == KvName(stack[Len(stack) - 1])
            IN  /\ ~InKv(stateContext'.contractStateDeletes, ks, kn)
                /\ InKv(stateContext'.contractState, ks, kn)
                /\ InKv(stateContext'.contractStateUpdates, ks, kn)]_vars
    /\ [][(/\ ExecutingOpcode(OP_KV_DELETE)
           /\ Len(stack) >= 2
           /\ phase' = "eval") =>
            LET ks == KvName(stack[Len(stack) - 1])
                kn == KvName(stack[Len(stack)])
            IN  /\ InKv(stateContext'.contractStateDeletes, ks, kn)
                /\ ~InKv(stateContext'.contractState, ks, kn)
                /\ ~InKv(stateContext'.contractStateUpdates, ks, kn)]_vars

\* a run that put an entry and then deleted it ended well, the entry marked
\* deleted in the results
C11_Witness ==
    /\ args.lockScript = KvPut(<<32>>, <<32>>, <<33>>) \o KvDelete(<<32>>, <<32>>) \o <<OP_1>>
    /\ args.tokens.contractState # EmptyMap
    /\ phase = "done"
    /\ result = 1
    /\ InKv(out.stateDeletes, HexStr(<<32>>), HexStr(<<32>>))

\* the entries of a two-level map, as (keyspace, key, value) triples
Entries(kv) == UNION {{<<ks, kn, kv[ks][kn]>> : kn \in DOMAIN kv[ks]} : ks \in DOMAIN kv}

\* the prior entries without those deleted, then the updates written
ReplayKv(prior, updates, deletes) ==
    {e \in Entries(prior) : ~InKv(deletes, e[1], e[2]) /\ ~InKv(updates, e[1], e[2])}
        \cup Entries(updates)

\* the prior balances with the updates applied; an update equal to gone
\* removes the id
ReplayBalances(prior, updates, gone) ==
    [k \in ((DOMAIN prior) \cup (DOMAIN updates))
              \ {x \in DOMAIN updates : updates[x] = gone} |->
        IF k \in DOMAIN updates THEN updates[k] ELSE prior[k]]

\* C12: in every run that returns 1, the prior key-value state with
\* kvDeletes removed and kvUpdates written has the entries of kvFinal, the
\* prior ft with ftUpdates applied (0 removes) is ftFinal, and the prior nft
\* with nftUpdates applied (false removes) is nftFinal.
C12_ReplayDeltas ==
    (phase = "done" /\ result = 1) =>
        /\ ReplayKv(args.tokens.contractState, out.stateUpdates, out.stateDeletes)
              = Entries(out.stateFinal)
        /\ ReplayBalances(args.tokens.ftState, out.ftBalancesUpdatesResult, 0)
              = out.ftBalancesResult
        /\ ReplayBalances(args.tokens.nftState, out.nftBalancesUpdatesResult, FALSE)
              = out.nftBalancesResult

\* a run on a prior state that is not empty returned 1 with a delete and
\* an update among its results
C12_Witness ==
    /\ phase = "done"
    /\ result = 1
    /\ args.tokens.contractState # EmptyMap
    /\ out.stateDeletes # EmptyMap
    /\ out.stateUpdates # EmptyMap
    /\ Entries(out.stateFinal) # Entries(args.tokens.contractState)

\* C13: right after a successful OP_KV_PUT(ks, kn, v), OP_KV_EXISTS(ks, kn)
\* pushes true and OP_KV_GET(ks, kn) pushes exactly v, the empty byte
\* string included as keyspace, as key and as value.
C13_KvPutThenRead ==
    [][\A ks \in {<<>>, <<32>>} : \A kn \in {<<>>, <<32>>} : \A v \in {<<>>, <<33>>, <<34>>} :
          /\ (/\ args.lockScript = KvPut(ks, kn, v) \o KvGet(ks, kn) \o <<OP_1>>
               /\ ExecutingOpcode(OP_KV_GET)) =>
                 (phase' = "eval" /\ stack' = <<v>>)
          /\ (/\ args.lockScript = KvPut(ks, kn, v) \o KvExists(ks, kn) \o <<OP_1>>
               /\ ExecutingOpcode(OP_KV_EXISTS)) =>
                 (phase' = "eval" /\ stack' = <<vchTrue>>)]_vars

\* C15: in every run that returns 1 the state hash is the SHA-256 of
\* prevStateHash followed by the inner hashes, in this order, of nftIncoming,
\* ftIncoming, kvFinal, kvUpdates, kvDeletes, nftFinal, ftFinal, nftUpdates,
\* ftUpdates, nftWithdraws and ftWithdraws, the maps being those emitted,
\* that is those the cleanup left: no empty keyspace, no zero balance.
C15_StateHashOrder ==
    (phase = "done" /\ result = 1) =>
        /\ out.stateHash =
              CSHA256(prevStateHash \o
                      <<GetStateDataHashNftBalanceHash(args.tokens.nftStateIncoming),
                        GetStateDataHashFtBalanceHash(args.tokens.ftStateIncoming),
                        GetStateDataHashState(out.stateFinal),
                        GetStateDataHashState(out.stateUpdates),
                        GetStateDataHashDeletes(out.stateDeletes),
                        GetStateDataHashNftBalanceHash(out.nftBalancesResult),
                        GetStateDataHashFtBalanceHash(out.ftBalancesResult),
                        GetStateDataHashNftBalanceHash(out.nftBalancesUpdatesResult),
                        GetStateDataHashFtBalanceHash(out.ftBalancesUpdatesResult),
                        GetStateDataHashNftWithdraws(out.nftWithdraws),
                        GetStateDataHashFtWithdraws(out.ftWithdraws)>>)
        /\ Len(prevStateHash) = 32
        /\ \A ks \in DOMAIN out.stateFinal : DOMAIN out.stateFinal[ks] # {}
        /\ \A ks \in DOMAIN out.stateUpdates : DOMAIN out.stateUpdates[ks] # {}
        /\ \A ks \in DOMAIN out.stateDeletes : DOMAIN out.stateDeletes[ks] # {}
        /\ \A k \in DOMAIN out.ftBalancesResult : out.ftBalancesResult[k] # 0
        /\ \A k \in DOMAIN out.nftBalancesResult : out.nftBalancesResult[k]

\* a run returned 1 with a balance left and a withdrawal recorded
C15_Witness ==
    /\ phase = "done"
    /\ result = 1
    /\ out.ftBalancesResult # EmptyMap
    /\ out.ftWithdraws # EmptyMap
    /\ out.nftBalancesResult = EmptyMap

\* the nine maps a call emits that the state hash is to bind
BoundOutputs(o) ==
    <<o.stateFinal, o.stateUpdates, o.stateDeletes, o.ftBalancesResult,
      o.ftBalancesUpdatesResult, o.nftBalancesResult, o.nftBalancesUpdatesResult,
      o.ftWithdraws, o.nftWithdraws>>

\* C14: two calls with the same prevStateHash that both return 1 and whose
\* emitted kvFinal, kvUpdates, kvDeletes, ftFinal, ftUpdates, nftFinal,
\* nftUpdates, ftWithdraws or nftWithdraws differ feed different byte
\* strings into the hash of the state commitment.
C14_CommitmentBindsOutputs ==
    (phase = "done" /\ result = 1 /\ earlier # NoCall
        /\ BoundOutputs(earlier) # BoundOutputs(out)) =>
            earlier.stateHash.sha256 # out.stateHash.sha256

\* the map an enumeration opcode selects: type 0 the balances, type 1 the
\* incoming map
SelectedMap(opcode, type, sc) ==
    IF opcode = OP_FT_ITEM THEN (IF type = 0 THEN sc.ftState ELSE sc.ftStateIncoming)
    ELSE (IF type = 0 THEN sc.nftState ELSE sc.nftStateIncoming)

\* an enumeration opcode is about to run on an index and a type, and goes on
ItemSucceeds(opcode) ==
    /\ ExecutingOpcode(opcode)
    /\ Len(stack) >= 2
    /\ phase' = "eval"

InsertionOrder(prior, current) ==
    LET first == CHOOSE k \in DOMAIN prior : TRUE
        added == (DOMAIN current) \ {first}
    IN  IF added = {} THEN <<first>> ELSE <<first, CHOOSE k \in added : TRUE>>

OpcodeSucceeds(opcode) == ExecutingOpcode(opcode) /\ phase' = "eval"

\* C17: a successful OP_CHECKAUTHSIGVERIFY leaves the stack exactly as it
\* was before the opcode; a successful OP_CHECKAUTHSIG of a call that gives
\* an auth public key leaves the stack one element deeper, with that
\* public key on top.
C17_AuthSigVerifyKeepsStack ==
    [][/\ OpcodeSucceeds(OP_CHECKAUTHSIGVERIFY) => stack' = stack
       /\ (OpcodeSucceeds(OP_CHECKAUTHSIG) /\ getAuthPubKey(context).ok) =>
              stack' = Append(stack, args.call.authPubKey)]_vars

\* an output of the transaction carries a signature
SigOutputPresent == \E i \in DOMAIN args.call.spk : args.call.spk[i] = SigOpReturn(Sig1)

\* the call gives an auth public key
AuthPubKeyPresent == args.call.authPubKey # <<>>

\* C18: with neither an auth public key nor a sig output, OP_CHECKAUTHSIG
\* pushes false and evaluation goes on, and OP_CHECKAUTHSIGVERIFY fails;
\* with exactly one of the two, both opcodes fail with
\* INVALID_AVM_CHECKAUTHSIG.  The call is one with an execution context:
\* the public key and the outputs are the context's.
C18_AuthSigAbsentOrOneSided ==
    [][\A opcode \in {OP_CHECKAUTHSIG, OP_CHECKAUTHSIGVERIFY} :
          (ExecutingOpcode(opcode) /\ args.call.hasContext) =>
            /\ (~AuthPubKeyPresent /\ ~SigOutputPresent) =>
                  IF opcode = OP_CHECKAUTHSIG
                  THEN phase' = "eval" /\ stack' = Append(stack, vchFalse)
                  ELSE /\ phase' = "verified"
                       /\ ~verified'
                       /\ serror' = "INVALID_AVM_CHECKAUTHSIGVERIFY"
            /\ (AuthPubKeyPresent # SigOutputPresent) =>
                  /\ phase' = "verified"
                  /\ ~verified'
                  /\ serror' = "INVALID_AVM_CHECKAUTHSIG"]_vars

\* OP_CHECKAUTHSIGVERIFY has failed a call that gives a public key and no
\* sig output
C18_Witness ==
    /\ phase = "verified"
    /\ args.lockScript = <<OP_1, OP_CHECKAUTHSIGVERIFY>>
    /\ AuthPubKeyPresent
    /\ ~SigOutputPresent
    /\ serror = "INVALID_AVM_CHECKAUTHSIG"
    /\ stack = <<serialize(1)>>

\* the value of every output from index on that is not a sig OP_RETURN, as
\* eight little-endian bytes, each followed by the script of the output
RECURSIVE ValuesAndScriptsFrom(_, _)
ValuesAndScriptsFrom(vout, index) ==
    IF index > Len(vout) THEN <<>>
    ELSE (IF vout[index].scriptPubKey = SigOpReturn(Sig1) THEN <<>>
          ELSE SerializeLE(vout[index].nValue, 8) \o vout[index].scriptPubKey)
         \o ValuesAndScriptsFrom(vout, index + 1)

\* the context of the call the signer signed: the call made, but for the
\* value of the paying output
signedContext ==
    CallContext(args.unlockScript, args.lockScript, args.call.signedVout, args.call.spk,
                args.call.prevout, args.call.authPubKey)

\* C19: the auth message of a call that executes OP_CHECKAUTHSIG or
\* OP_CHECKAUTHSIGVERIFY ends with, for every output that is not a sig
\* OP_RETURN, the value of the output as a 64-bit little-endian integer
\* followed by its scriptPubKey; the call made and the call signed, when
\* they differ in the value of such an output and in nothing else, have
\* different auth messages.
C19_AuthMessageBindsValues ==
    (ExecutingOpcode(OP_CHECKAUTHSIG) \/ ExecutingOpcode(OP_CHECKAUTHSIGVERIFY)) =>
        /\ getAuthMessage(context) =
               Prevout1.txid \o SerializeLE(Prevout1.n, 4) \o args.unlockScript
                   \o args.lockScript \o ValuesAndScriptsFrom(context.tx.vout, 1)
        /\ args.vout # args.call.signedVout =>
               getAuthMessage(context) # getAuthMessage(signedContext)

\* C19 with the values of the outputs at most INT_MAX
AuthMessageBindsSmallValues ==
    (\A i \in DOMAIN args.vout : args.vout[i] <= INT_MAX /\ args.call.signedVout[i] <= INT_MAX)
        => C19_AuthMessageBindsValues

\* a call whose paying output has another value than the call signed has
\* passed OP_CHECKAUTHSIG
AlteredValueAuthorized ==
    /\ phase = "eval"
    /\ pc = 1
    /\ args.lockScript = <<OP_CHECKAUTHSIG, OP_DROP, OP_1>>
    /\ args.vout # args.call.signedVout
    /\ stack = <<Pk1>>

\* the opcodes that read or write the state context
StateOpcodes == AvmOpcodes \ {OP_CHECKAUTHSIG, OP_CHECKAUTHSIGVERIFY}

\* C20: every opcode of the virtual machine (OP_KV_*, OP_FT_*, OP_NFT_*,
\* OP_GETBLOCKINFO, OP_DECODEBLOCKINFO, OP_HASH_FN, OP_CHECKAUTHSIG,
\* OP_CHECKAUTHSIGVERIFY) executed without an execution context fails with
\* CONTEXT_NOT_PRESENT.
C20_NoContextFails ==
    [][\A opcode \in AvmOpcodes :
         (ExecutingOpcode(opcode) /\ ~args.call.hasContext)
             => (phase' = "verified" /\ serror' = "CONTEXT_NOT_PRESENT")]_vars

\* what holds of the code: the opcodes of the state context fail with
\* CONTEXT_NOT_PRESENT when there is no execution context, whatever the
\* stack holds
NoContextFailsStateOpcodes ==
    [][\A opcode \in StateOpcodes :
         (ExecutingOpcode(opcode) /\ ~args.call.hasContext)
             => (phase' = "verified" /\ serror' = "CONTEXT_NOT_PRESENT"
                   /\ stateContext' = stateContext /\ stack' = stack)]_vars

\* OP_CHECKAUTHSIG without an execution context has gone on, or the
\* process has ended
AuthSigWithoutContext ==
    /\ ~args.call.hasContext
    /\ args.lockScript = <<OP_CHECKAUTHSIG>>
    /\ which = "lock"
    /\ phase = "crashed" \/ (phase = "eval" /\ pc = 1)
    /\ serror # "CONTEXT_NOT_PRESENT"

\* the outer error code the entry point has a handler for, by the size
\* limit of the final validation
SizeErrorCode ==
    ("StateValidationStateSizeLimitError*" :> "atomicalsconsensus_ERR_STATE_SIZE_ERROR")
    @@ ("StateValidationStateUpdateSizeLimitError*" :>
            "atomicalsconsensus_ERR_STATE_UPDATES_SIZE_ERROR")
    @@ ("StateValidationStateDeleteSizeLimitError*" :>
            "atomicalsconsensus_ERR_STATE_DELETES_SIZE_ERROR")
    @@ ("StateValidationTokenFtBalanceSizeLimitError*" :>
            "atomicalsconsensus_ERR_STATE_FT_BALANCES_SIZE_ERROR")
    @@ ("StateValidationTokenFtBalanceUpdateSizeLimitError*" :>
            "atomicalsconsensus_ERR_STATE_FT_BALANCES_UPDATES_SIZE_ERROR")
    @@ ("StateValidationTokenNftBalanceSizeLimitError*" :>
            "atomicalsconsensus_ERR_STATE_NFT_BALANCES_SIZE_ERROR")
    @@ ("StateValidationTokenNftBalanceUpdateSizeLimitError*" :>
            "atomicalsconsensus_ERR_STATE_NFT_BALANCES_UPDATES_SIZE_ERROR")

\* the cleanup has ended and the final validation meets a size limit
FinalSizeViolation ==
    /\ phase = "finalize"
    /\ phase' # "crashed"
    /\ validateFinalStateRestrictions(stateContext') \in DOMAIN SizeErrorCode

\* C21: if the cleaned-up final state violates a size restriction at
\* finalization, the entry point returns failure with the matching outer
\* error code (STATE_SIZE_ERROR, STATE_UPDATES_SIZE_ERROR, ...) and no
\* script error.
C21_FinalSizeErrorCodes ==
    [][FinalSizeViolation =>
          /\ phase' = "done"
          /\ result' = 0
          /\ err' = SizeErrorCode[validateFinalStateRestrictions(stateContext')]
          /\ script_err' = "OK"]_vars

\* what holds of the code: the exception of a size limit leaves the entry
\* point, which has returned nothing and has left *err at ERR_OK
FinalSizeErrorEscapes ==
    [][FinalSizeViolation =>
          /\ phase' = "threw"
          /\ thrown' = validateFinalStateRestrictions(stateContext')
          /\ err' = "atomicalsconsensus_ERR_OK"
          /\ UNCHANGED result]_vars

\* a size limit exception of the final validation has left the entry point
FinalSizeErrorEscaped == phase = "threw" /\ verified /\ thrown \in DOMAIN SizeErrorCode

\* OP_GETBLOCKINFO is about to run on a height that is not 0 and of which
\* the external state has no header
UnknownHeightAsked ==
    /\ ExecutingOpcode(OP_GETBLOCKINFO)
    /\ args.call.hasContext
    /\ Len(stack) >= 2
    /\ NumOf(stacktop(stack, -2)) # 0
    /\ NumOf(stacktop(stack, -2)) \notin DOMAIN stateContext.external.headers

\* C22: OP_GETBLOCKINFO with a non-zero height that is not in
\* external.headers makes the script fail with a script error reported
\* through the normal error result; no exception escapes the interpreter
\* or the entry point.
C22_UnknownHeightFails ==
    [][UnknownHeightAsked =>
          /\ phase' = "verified"
          /\ ~verified'
          /\ serror' # "OK"
          /\ thrown' = "none"]_vars

\* what holds of the code: with a field of 0..8 the exception
\* InvalidBlockInfoHeight, thrown as a pointer, leaves EvalScript after the
\* two operands were popped and no script error is set; with another
\* field the script fails with INVALID_AVM_INVALID_BLOCKINFO_ITEM
UnknownHeightThrows ==
    [][UnknownHeightAsked =>
          IF NumOf(stacktop(stack, -1)) \in 0..8
          THEN /\ phase' = "threw"
               /\ thrown' = "InvalidBlockInfoHeight*"
               /\ serror' = serror
               /\ stack' = popstack(popstack(stack))
          ELSE /\ phase' = "verified"
               /\ serror' = "INVALID_AVM_INVALID_BLOCKINFO_ITEM"]_vars

\* the exception of an unknown height has left the interpreter
UnknownHeightEscaped == phase = "threw" /\ thrown = "InvalidBlockInfoHeight*"

\* the bytes the final validation counts in the updates and in the deletes
\* of the key-value state
UpdateBytes(sc) == performValidateStateRestrictionsState(sc.contractStateUpdates).byteCount

DeleteBytes(sc) == performValidateStateRestrictionsStateDeletes(sc.contractStateDeletes).byteCount

\* C23: a run is rejected at finalization whenever the size of kvUpdates
\* plus the size of kvDeletes exceeds MAX_STATE_UPDATE_BYTES: the entry
\* point does not return 1.
C23_UpdatesPlusDeletesBounded ==
    [][(/\ phase = "finalize"
        /\ phase' # "crashed"
        /\ UpdateBytes(stateContext') + DeleteBytes(stateContext') > MAX_STATE_UPDATE_BYTES)
          => ~(phase' = "done" /\ result' = 1)]_vars

\* what holds of the code: updates and deletes are each held to
\* MAX_STATE_UPDATE_BYTES, and a run goes through finalization only if
\* neither exceeds it
UpdatesAndDeletesEachBounded ==
    [][(/\ phase = "finalize"
        /\ \/ UpdateBytes(stateContext') > MAX_STATE_UPDATE_BYTES
           \/ DeleteBytes(stateContext') > MAX_STATE_UPDATE_BYTES)
          => ~(phase' = "done" /\ result' = 1)]_vars

\* a run has returned 1 with updates and deletes that exceed
\* MAX_STATE_UPDATE_BYTES together
UpdatesPlusDeletesAccepted ==
    /\ phase = "done"
    /\ result = 1
    /\ UpdateBytes(stateContext) + DeleteBytes(stateContext) > MAX_STATE_UPDATE_BYTES

\* the offset reached from offset `from` after at most k instructions of
\* the script; an instruction that does not parse ends the script
RECURSIVE AfterInstrs(_, _, _)
AfterInstrs(script, from, k) ==
    IF k = 0 \/ from >= Len(script) THEN from
    ELSE IF k = 1
         THEN IF GetScriptOp(script, from).ok THEN GetScriptOp(script, from).pc
              ELSE Len(script)
    ELSE AfterInstrs(script, AfterInstrs(script, from, k \div 2), k - (k \div 2))

\* the number of instructions, among the at most k of the script from
\* offset `from` on, that begin before offset `at`
RECURSIVE InstrsIn(_, _, _, _)
InstrsIn(script, from, k, at) ==
    IF k = 0 \/ from >= at THEN 0
    ELSE IF k = 1 THEN 1
    ELSE InstrsIn(script, from, k \div 2, at)
             + InstrsIn(script, AfterInstrs(script, from, k \div 2), k - (k \div 2), at)

\* the number of instructions of the script that begin in from..at-1, at
\* being the offset of an instruction: its 0-based position
InstrsBefore(script, from, at) == InstrsIn(script, from, at - from, at)

\* the instruction at pc raises an error: EvalScript returns false, or an
\* exception leaves it
OpcodeRaisesError ==
    /\ phase = "eval"
    /\ pc < Len(currentScript)
    /\ phase' \in {"verified", "threw"}

\* C24: the first opcode that raises an error halts evaluation, no later
\* opcode is executed, and the reported op index is the 0-based position
\* of that opcode within the script being evaluated.
C24_FirstErrorHalts ==
    [][/\ OpcodeRaisesError =>
            /\ serror_op_num' = InstrsBefore(currentScript, 0, pc)
            /\ phase' = "verified" => (~verified' /\ serror' # "OK")
       /\ (phase = "verified" /\ ~verified) =>
            /\ phase' = "done"
            /\ result' = 0
            /\ script_err' = serror
            /\ UNCHANGED <<stack, stateContext, pc, opCounter, serror_op_num>>
       /\ (phase = "done" /\ result = 0) => UNCHANGED vars
       /\ phase = "threw" => UNCHANGED vars]_vars

\* the second instruction of a lock script, after an unlock script that is
\* not empty, has raised an error and the call has returned 0
C24_Witness ==
    /\ phase = "done"
    /\ result = 0
    /\ which = "lock"
    /\ Len(args.unlockScript) > 0
    /\ serror_op_num = 1
    /\ script_err \in {"INVALID_STACK_OPERATION", "OP_RETURN"}

\* the number of non-push opcodes (above OP_16) among the at most k
\* instructions of the script from offset `from` on
RECURSIVE NonPushOpsIn(_, _, _)
NonPushOpsIn(script, from, k) ==
    IF k = 0 \/ from >= Len(script) THEN 0
    ELSE IF k = 1
         THEN IF GetScriptOp(script, from).ok /\ GetScriptOp(script, from).opcode > OP_16
              THEN 1 ELSE 0
    ELSE NonPushOpsIn(script, from, k \div 2)
             + NonPushOpsIn(script, AfterInstrs(script, from, k \div 2), k - (k \div 2))

\* the number of non-push opcodes of the script
NonPushOps(script) == NonPushOpsIn(script, 0, Len(script))

\* C25: a script containing more than MAX_OPS_PER_SCRIPT non-push opcodes
\* fails with OP_COUNT, and the failure is raised exactly at the non-push
\* opcode that brings the count to MAX_OPS_PER_SCRIPT + 1.
C25_OpCountRaised ==
    (/\ phase = "done"
     /\ which = "lock"
     /\ NonPushOps(args.lockScript) > MAX_OPS_PER_SCRIPT)
        => /\ result = 0
           /\ script_err = "OP_COUNT"
           /\ nOpCount = MAX_OPS_PER_SCRIPT + 1

\* what holds of the code: a script of more than MAX_OPS_PER_SCRIPT
\* non-push opcodes has more than MAX_SCRIPT_SIZE bytes and fails with
\* SCRIPT_SIZE before its first instruction is read; EvalScript never
\* fails with OP_COUNT
C25_ScriptSizeComesFirst ==
    [][/\ (phase = "evalstart" /\ NonPushOps(currentScript) > MAX_OPS_PER_SCRIPT)
            => /\ phase' = "verified"
               /\ ~verified'
               /\ serror' = "SCRIPT_SIZE"
               /\ nOpCount' = 0
       /\ serror' # "OP_COUNT"
       /\ nOpCount' <= MAX_OPS_PER_SCRIPT]_vars

\* a lock script of MAX_OPS_PER_SCRIPT + 1 non-push opcodes has been
\* rejected for its length
C25_Witness ==
    /\ phase = "done"
    /\ which = "lock"
    /\ NonPushOps(args.lockScript) = MAX_OPS_PER_SCRIPT + 1
    /\ result = 0
    /\ script_err = "SCRIPT_SIZE"
    /\ nOpCount = 0

\* a script has been evaluated to its end with exactly MAX_OPS_PER_SCRIPT
\* non-push opcodes counted
OpCountAtLimit ==
    /\ phase = "done"
    /\ which = "lock"
    /\ nOpCount = MAX_OPS_PER_SCRIPT
    /\ script_err # "OP_COUNT"

\* C26: every element on the stack or the alt-stack is at most
\* MAX_SCRIPT_ELEMENT_SIZE bytes at every opcode boundary, whatever opcode
\* produced it.
C26_ElementsBounded ==
    /\ \A i \in DOMAIN stack : Len(stack[i]) <= MAX_SCRIPT_ELEMENT_SIZE
    /\ \A i \in DOMAIN altstack : Len(altstack[i]) <= MAX_SCRIPT_ELEMENT_SIZE

\* what holds of the code: the instruction that leaves an element of more
\* than MAX_SCRIPT_ELEMENT_SIZE bytes is an OP_KV_GET, and the element is
\* the value it read
OnlyKvGetExceeds ==
    [][(C26_ElementsBounded /\ ~C26_ElementsBounded')
          => /\ ExecutingOpcode(OP_KV_GET)
             /\ Len(stack') > 0
             /\ HexStr(stacktop(stack', -1)) \in
                    {args.tokens.contractState[ks][kn] :
                        ks \in DOMAIN args.tokens.contractState,
                        kn \in UNION {DOMAIN args.tokens.contractState[k] :
                                            k \in DOMAIN args.tokens.contractState}}]_vars

\* OP_KV_GET has pushed a value of more than MAX_SCRIPT_ELEMENT_SIZE bytes
\* and the script goes on
OversizedElementRead ==
    /\ phase = "eval"
    /\ Len(stack) > 0
    /\ Len(stacktop(stack, -1)) > MAX_SCRIPT_ELEMENT_SIZE

\* C27: after every opcode that completes without error, the combined
\* depth of the stack and the alt-stack is at most MAX_STACK_SIZE; an
\* opcode that would leave it larger fails with STACK_SIZE.
C27_DepthBounded ==
    [][(phase = "eval" /\ pc < Len(currentScript))
          => IF Len(stack') + Len(altstack') > MAX_STACK_SIZE
             THEN phase' = "verified" /\ ~verified' /\ serror' = "STACK_SIZE"
             ELSE serror' # "STACK_SIZE"]_vars

\* an instruction has left MAX_STACK_SIZE + 1 elements, one of them on the
\* altstack, and has failed with STACK_SIZE
C27_Witness ==
    /\ phase = "verified"
    /\ serror = "STACK_SIZE"
    /\ Len(altstack) = 1
    /\ Len(stack) = MAX_STACK_SIZE

\* the depth MAX_STACK_SIZE is reached without an error
DepthAtLimit ==
    /\ phase = "eval"
    /\ Len(altstack) > 0
    /\ Len(stack) + Len(altstack) = MAX_STACK_SIZE

\* the balance a map of FT balances holds for the id, 0 if it has none
BalanceOf(balances, id) ==
    IF GetHex(id) \in DOMAIN balances THEN balances[GetHex(id)] ELSE 0

\* the sum of the amounts recorded in the FT withdraw map for the id, over
\* all output indexes
WithdrawnOf(sc, id) ==
    IF id \in DOMAIN sc.ftWithdrawMap THEN SumMap(sc.ftWithdrawMap[id]) ELSE 0

\* what went out of the balance of the id during the call: the prior
\* balance, plus the incoming amount if the id was added, minus the final
\* balance
LeftBalanceOf(id) ==
    BalanceOf(args.tokens.ftState, id)
        + (IF id \in stateContext.ftAddsSet
           THEN BalanceOf(args.tokens.ftStateIncoming, id) ELSE 0)
        - BalanceOf(stateContext.ftState, id)

\* C28: FT amounts are conserved per token id over any sequence of
\* OP_FT_BALANCE_ADD and OP_FT_WITHDRAW: the prior balance plus the
\* incoming amount (if the id was added) minus the final balance equals the
\* sum of the amounts recorded in ftWithdraws[id] over all output indexes,
\* also when the same (id, outIdx) is withdrawn to more than once.
C28_FtConserved ==
    (phase = "done" /\ result = 1)
        => \A id \in {Id1, Id2, Id3} : LeftBalanceOf(id) = WithdrawnOf(stateContext, id)

\* a call has returned 1 after two withdrawals of 2 units of Id1 to output
\* 0 from a balance of 2 + 2 or more that no addition wrapped: 4 units
\* left the balance and the withdraw map records 2
RepeatedWithdrawLost ==
    /\ phase = "done"
    /\ result = 1
    /\ args.lockScript = FtWithdraw(2, 0, Id1) \o FtWithdraw(2, 0, Id1) \o <<OP_1>>
    /\ LeftBalanceOf(Id1) = 4
    /\ WithdrawnOf(stateContext, Id1) = 2

\* byte strings that name keyspaces and keys
ProbedNames == {<<>>, <<0>>, <<32>>, <<33>>}

\* the (keyspace, key) pair the OP_KV_PUT or OP_KV_DELETE about to be
\* executed is given
TargetPair ==
    IF ExecutingOpcode(OP_KV_PUT) THEN <<stacktop(stack, -3), stacktop(stack, -2)>>
    ELSE <<stacktop(stack, -2), stacktop(stack, -1)>>

\* an OP_KV_PUT or OP_KV_DELETE is executed and succeeds
KvWriteSucceeds ==
    /\ \/ ExecutingOpcode(OP_KV_PUT) /\ Len(stack) >= 3
       \/ ExecutingOpcode(OP_KV_DELETE) /\ Len(stack) >= 2
    /\ args.call.hasContext
    /\ phase' = "eval"

\* OP_KV_GET and OP_KV_EXISTS on the pair give the same before and after
\* the step
SameRead(ks, kn) ==
    /\ contractStateGet(stateContext', ks, kn) = contractStateGet(stateContext, ks, kn)
    /\ contractStateExists(stateContext', ks, kn) = contractStateExists(stateContext, ks, kn)

\* C29: distinct (keyspace, key) byte-string pairs address distinct KV
\* entries: a successful OP_KV_PUT or OP_KV_DELETE on one pair never changes
\* the result of OP_KV_GET or OP_KV_EXISTS on a different pair.
C29_DistinctPairsIndependent ==
    [][KvWriteSucceeds =>
          \A ks \in ProbedNames, kn \in ProbedNames :
              <<ks, kn>> # TargetPair => SameRead(ks, kn)]_vars

\* what holds of the code: a write leaves the reads of every pair whose
\* names, as HexStrWith00Null writes them, differ from those of its own
DistinctNamesIndependent ==
    [][KvWriteSucceeds =>
          \A ks \in ProbedNames, kn \in ProbedNames :
              <<HexStrWith00Null(ks), HexStrWith00Null(kn)>>
                  # <<HexStrWith00Null(TargetPair[1]), HexStrWith00Null(TargetPair[2])>>
              => SameRead(ks, kn)]_vars

\* a put under the empty key has been read back under the key of the one
\* byte 0x00
EmptyKeyPutReadAsZeroKey ==
    /\ phase = "eval"
    /\ args.tokens.contractState = EmptyMap
    /\ args.lockScript = KvPut(<<32>>, <<>>, <<33>>) \o KvGet(<<32>>, <<0>>) \o <<OP_1>>
    /\ Len(stack) = 1
    /\ stacktop(stack, -1) = <<33>>

\* an OP_FT_BALANCE_ADD is executed and succeeds
FtBalanceAddSucceeds ==
    /\ ExecutingOpcode(OP_FT_BALANCE_ADD)
    /\ args.call.hasContext
    /\ Len(stack) >= 1
    /\ phase' = "eval"

\* C30: a successful OP_FT_BALANCE_ADD leaves ft[id] equal to the
\* mathematical sum of the previous balance and the incoming amount; the
\* unsigned 64-bit balance never wraps around.
C30_FtBalanceAddNoWrap ==
    [][FtBalanceAddSucceeds =>
          LET id == stacktop(stack, -1)
          IN  /\ BalanceOf(stateContext'.ftState, id)
                     = BalanceOf(stateContext.ftState, id)
                           + BalanceOf(stateContext.ftStateIncoming, id)
              /\ BalanceOf(stateContext'.ftState, id) >= BalanceOf(stateContext.ftState, id)]_vars

\* what holds of the code: the balance is the sum modulo 2^64
FtBalanceAddModular ==
    [][FtBalanceAddSucceeds =>
          LET id == stacktop(stack, -1)
          IN  BalanceOf(stateContext'.ftState, id)
                  = (BalanceOf(stateContext.ftState, id)
                         + BalanceOf(stateContext.ftStateIncoming, id)) % U64_MOD]_vars

\* a call has returned 1 after an OP_FT_BALANCE_ADD of 1 unit to the
\* largest balance, which it left at 0
FtBalanceWrapped ==
    /\ phase = "done"
    /\ result = 1
    /\ BalanceOf(args.tokens.ftState, Id1) = U64_MAX
    /\ BalanceOf(args.tokens.ftStateIncoming, Id1) = 1
    /\ Id1 \in stateContext.ftAddsSet
    /\ BalanceOf(stateContext.ftState, Id1) = 0

\* the instruction about to be read is the opcode, whether or not an
\* enclosing branch is off
ReadingOpcode(opcode) ==
    /\ phase = "eval"
    /\ pc < Len(currentScript)
    /\ GetScriptOp(currentScript, pc).ok
    /\ GetScriptOp(currentScript, pc).opcode = opcode

\* OP_ELSE or OP_ENDIF with an empty condition stack fails with
\* UNBALANCED_CONDITIONAL, and so does the end of a script with a condition
\* stack that is not empty
UnbalancedReported ==
    /\ ((ReadingOpcode(OP_ELSE) \/ ReadingOpcode(OP_ENDIF)) /\ empty(vfExec))
          => (phase' = "verified" /\ ~verified' /\ serror' = "UNBALANCED_CONDITIONAL")
    /\ (phase = "eval" /\ pc >= Len(currentScript) /\ ~empty(vfExec))
          => (phase' = "verified" /\ ~verified' /\ serror' = "UNBALANCED_CONDITIONAL")

\* C31: evaluation of a script never returns success while the condition
\* stack is non-empty: OP_ELSE or OP_ENDIF with an empty condition stack
\* fails with UNBALANCED_CONDITIONAL, and a final non-empty condition stack
\* is reported as UNBALANCED_CONDITIONAL.
C31_NoSuccessUnbalanced ==
    [][/\ UnbalancedReported
       /\ (phase = "eval" /\ phase' = "evalret") => empty(vfExec')]_vars

\* what holds of the code: the reports of C31, and EvalScript returns
\* success with a condition stack that is not empty only from an OP_RETURN
\* executed with an empty stack
C31_SuccessUnbalancedOnlyByReturn ==
    [][/\ UnbalancedReported
       /\ (phase = "eval" /\ phase' = "evalret" /\ ~empty(vfExec'))
             => (ExecutingOpcode(OP_RETURN) /\ Len(stack) = 0)]_vars

\* a lock script has been read to its end with a condition stack that is
\* not empty and the call has returned 0 with UNBALANCED_CONDITIONAL
C31_Witness ==
    /\ phase = "done"
    /\ which = "lock"
    /\ pc >= Len(args.lockScript)
    /\ ~empty(vfExec)
    /\ result = 0
    /\ script_err = "UNBALANCED_CONDITIONAL"

\* EvalScript has returned success from an OP_RETURN inside a branch
ReturnedInsideBranch ==
    /\ phase = "evalret"
    /\ ~empty(vfExec)
    /\ serror = "OK"

\* ---------------------------------------------------------------------------
\* ConditionStack on its own: every sequence of push_back, pop_back and
\* toggle_top up to MaxCondDepth entries, next to the stack of booleans
InitCond ==
    /\ args = [kind |-> "ConditionStack"]
    /\ phase = "cond"
    /\ stateContext = EmptyMap
    /\ stack = <<>>
    /\ altstack = <<>>
    /\ vfExec = ConditionStackInit
    /\ vfBools = <<>>
    /\ which = "unlock"
    /\ pc = 0
    /\ nOpCount = 0
    /\ opCounter = 0
    /\ serror = "UNKNOWN"
    /\ serror_op_num = 0
    /\ verified = FALSE
    /\ thrown = "none"
    /\ result = 0
    /\ err = "OK"
    /\ script_err = "OK"
    /\ out = EmptyMap
    /\ earlier = EmptyMap

condFrame == <<args, phase, stateContext, stack, altstack, which, pc, nOpCount, opCounter, serror, serror_op_num, verified, thrown, result, err, script_err, out, earlier>>

CondPushBack ==
    /\ phase = "cond"
    /\ Len(vfBools) < MaxCondDepth
    /\ \E f \in BOOLEAN :
          /\ vfExec' = push_back(vfExec, f)
          /\ vfBools' = Append(vfBools, f)
    /\ UNCHANGED condFrame

CondPopBack ==
    /\ phase = "cond"
    /\ Len(vfBools) > 0
    /\ vfExec' = pop_back(vfExec)
    /\ vfBools' = SubSeq(vfBools, 1, Len(vfBools) - 1)
    /\ UNCHANGED condFrame

CondToggleTop ==
    /\ phase = "cond"
    /\ Len(vfBools) > 0
    /\ vfExec' = toggle_top(vfExec)
    /\ vfBools' = [vfBools EXCEPT ![Len(vfBools)] = ~@]
    /\ UNCHANGED condFrame

NextCond ==
    \/ CondPushBack
    \/ CondPopBack
    \/ CondToggleTop

SpecCond == InitCond /\ [][NextCond]_vars

\* C32: after every sequence of push_back, pop_back and toggle_top (the last
\* two on a stack that is not empty) the pair (size, first false position)
\* answers empty() and all_true() as the stack of booleans under the same
\* operations does: empty exactly when it has no entry, all_true exactly when
\* it has no false entry
C32_SameAnswers ==
    /\ empty(vfExec) = (Len(vfBools) = 0)
    /\ all_true(vfExec) = (\A i \in DOMAIN vfBools : vfBools[i])

\* a false entry below a toggled top: the pair does not change with the top
C32_Witness ==
    /\ phase = "cond"
    /\ vfBools = <<TRUE, FALSE, TRUE, FALSE>>
    /\ vfExec = [m_stack_size |-> 4, m_first_false_pos |-> 1]

\* the same answers along the evaluation of scripts
C32_SameAnswersInScripts == phase \in {"eval", "evalret"} => C32_SameAnswers
\* ---------------------------------------------------------------------------
\* the index OP_PICK and OP_ROLL read
PickIndex == CScriptNum(stacktop(stack, -1), MAXIMUM_ITEM_SIZE)

\* the loop is at an OP_PICK or OP_ROLL that calls getSizeType
CallsGetSizeType ==
    /\ ExecutingOpcode(OP_PICK) \/ ExecutingOpcode(OP_ROLL)
    /\ Len(stack) >= 2
    /\ PickIndex.exc = "none"

\* the index is negative or not less than the depth that is left
IndexOutOfRange ==
    PickIndex.m_value.neg \/ AtLeastSize(PickIndex.m_value, Len(stack) - 1)

\* C33: the precondition 0 <= n <= INT_MAX of getSizeType holds at every
\* call the evaluation of a script makes, and OP_PICK and OP_ROLL with an
\* index that is negative or not less than the depth that is left fail with
\* INVALID_STACK_OPERATION
C33_GetSizeTypePreHolds ==
    [][/\ CallsGetSizeType => getSizeTypePre(PickIndex.m_value)
       /\ (CallsGetSizeType /\ IndexOutOfRange)
             => (phase' = "verified" /\ ~verified' /\ serror' = "INVALID_STACK_OPERATION")]_vars

\* the index -1 has ended the process at the assert of getSizeType
NegativeIndexAsserted ==
    /\ phase = "crashed"
    /\ args.call.asserts
    /\ GetScriptOp(currentScript, pc - 1).opcode \in {OP_PICK, OP_ROLL}
    /\ stacktop(stack, -1) = serialize(0 - 1)

\* without the asserts the same index is rejected by the comparison
NegativeIndexRejected ==
    /\ phase = "done"
    /\ ~args.call.asserts
    /\ args.lockScript = <<OP_1, OP_1NEGATE, OP_PICK>>
    /\ script_err = "INVALID_STACK_OPERATION"

\* an index inside the depth copies or moves the element
C33_IndexInRange ==
    [][(CallsGetSizeType /\ ~IndexOutOfRange)
          => /\ phase' = "eval"
             /\ stacktop(stack', -1) = stacktop(stack, 0 - getSizeType(PickIndex.m_value) - 2)
             /\ Len(stack') = IF ExecutingOpcode(OP_ROLL) THEN Len(stack) - 1
                               ELSE Len(stack)]_vars
\* ---------------------------------------------------------------------------
\* the loop is at an opcode that finds fewer elements than it takes
Underflow ==
    /\ phase = "eval"
    /\ pc < Len(currentScript)
    /\ all_true(vfExec)
    /\ args.call.hasContext
    /\ GetScriptOp(currentScript, pc).ok
    /\ GetScriptOp(currentScript, pc).opcode \in DOMAIN Operands
    /\ Len(stack) < Operands[GetScriptOp(currentScript, pc).opcode]

\* the error an underflow is reported with
UnderflowError(opcode) ==
    IF opcode \in {OP_IF, OP_NOTIF} THEN "UNBALANCED_CONDITIONAL"
    ELSE "INVALID_STACK_OPERATION"

\* C34: every opcode that takes k operands fails with INVALID_STACK_OPERATION
\* at every depth from 0 to k - 1 (OP_IF and OP_NOTIF with
\* UNBALANCED_CONDITIONAL, OP_FROMALTSTACK on an empty altstack with
\* INVALID_ALTSTACK_OPERATION); no underflow is reported as UNKNOWN
C34_UnderflowReported ==
    [][/\ Underflow
          => /\ phase' = "verified"
             /\ ~verified'
             /\ serror' = UnderflowError(GetScriptOp(currentScript, pc).opcode)
       /\ (ExecutingOpcode(OP_FROMALTSTACK) /\ Len(altstack) = 0)
          => /\ phase' = "verified"
             /\ ~verified'
             /\ serror' = "INVALID_ALTSTACK_OPERATION"]_vars

\* the same, but for OP_EQUAL and OP_EQUALVERIFY on an empty stack, which
\* report UNKNOWN
UnderflowReportedButEqual ==
    [][/\ Underflow
          => /\ phase' = "verified"
             /\ ~verified'
             /\ serror' = IF /\ GetScriptOp(currentScript, pc).opcode
                                   \in {OP_EQUAL, OP_EQUALVERIFY}
                              /\ Len(stack) = 0
                           THEN "UNKNOWN"
                           ELSE UnderflowError(GetScriptOp(currentScript, pc).opcode)
       /\ (ExecutingOpcode(OP_FROMALTSTACK) /\ Len(altstack) = 0)
          => /\ phase' = "verified"
             /\ ~verified'
             /\ serror' = "INVALID_ALTSTACK_OPERATION"]_vars

\* OP_EQUAL on an empty stack has been reported as UNKNOWN
EqualUnderflowUnknown ==
    /\ phase = "done"
    /\ args.lockScript = <<OP_EQUAL>>
    /\ result = 0
    /\ script_err = "UNKNOWN"
\* ---------------------------------------------------------------------------
\* the loop is at an instruction of a branch that is off which is not one of
\* the four opcodes of the conditionals
SkippingInstruction ==
    /\ phase = "eval"
    /\ pc < Len(currentScript)
    /\ ~all_true(vfExec)
    /\ GetScriptOp(currentScript, pc).opcode \notin {OP_IF, OP_NOTIF, OP_ELSE, OP_ENDIF}

\* C35: while the condition stack holds a false entry no opcode but OP_IF,
\* OP_NOTIF, OP_ELSE and OP_ENDIF changes the stack, the altstack or the
\* state context; an opcode that is skipped only advances the index of the
\* instruction and the count of non-push opcodes (and the place in the
\* script)
C35_SkippedChangesNothing ==
    [][SkippingInstruction
          => /\ stack' = stack
             /\ altstack' = altstack
             /\ stateContext' = stateContext
             /\ vfExec' = vfExec
             /\ opCounter' = opCounter + 1
             /\ nOpCount' = IF GetScriptOp(currentScript, pc).opcode > OP_16
                             THEN nOpCount + 1 ELSE nOpCount
             /\ pc' = GetScriptOp(currentScript, pc).pc
             /\ phase' \in {"eval", "verified"}
             /\ phase' = "verified"
                   => serror' \in {"BAD_OPCODE", "PUSH_SIZE", "OP_COUNT", "DISABLED_OPCODE"}]_vars

\* a script has ended well after an OP_KV_PUT and an OP_TOALTSTACK in a
\* branch that is off: nothing was written
C35_Witness ==
    /\ phase = "done"
    /\ args.lockScript = <<OP_0, OP_IF>> \o KvPut(<<32>>, <<32>>, <<33>>)
                              \o <<OP_TOALTSTACK, OP_ENDIF, OP_1>>
    /\ result = 1
    /\ stateContext.contractState = EmptyMap
    /\ altstack = <<>>
    /\ nOpCount = 4
\* ---------------------------------------------------------------------------
\* the state opcodes that write, and OP_KV_GET
WritingOpcodes ==
    {OP_KV_PUT, OP_KV_GET, OP_KV_DELETE, OP_FT_BALANCE_ADD, OP_NFT_PUT, OP_FT_WITHDRAW,
     OP_NFT_WITHDRAW}

\* the loop is at one of these opcodes, in a branch that is on
ExecutingWritingOpcode == \E opcode \in WritingOpcodes : ExecutingOpcode(opcode)

\* C36: a state opcode that fails (OP_KV_PUT, OP_KV_GET, OP_KV_DELETE,
\* OP_FT_BALANCE_ADD, OP_NFT_PUT, OP_FT_WITHDRAW, OP_NFT_WITHDRAW) leaves
\* every map of the state context, the sets of consumed tokens and the
\* withdraw maps included, as it was before the opcode
C36_FailedOpcodeWritesNothing ==
    [][(ExecutingWritingOpcode /\ phase' # "eval") => stateContext' = stateContext]_vars
\* a second OP_FT_BALANCE_ADD of a token has failed and has left the set of
\* consumed tokens and the balance of the first as they were
C36_Witness ==
    /\ phase = "verified"
    /\ serror = "INVALID_AVM_FT_BALANCE_ADD_INVALID"
    /\ stateContext.ftAddsSet = {Id1}
    /\ HexStr(Id1) \in DOMAIN stateContext.ftBalancesUpdates
    /\ Len(stack) = 1
\* ---------------------------------------------------------------------------
\* a key-value map with a keyspace that holds no key
HasEmptyKeyspace(kv) == \E ks \in DOMAIN kv : DOMAIN kv[ks] = {}

\* a call has returned 1 and has written its results
Emitted == phase = "done" /\ result = 1

\* C37: on every run that succeeds the final key-value state, the updates
\* and the deletes that are emitted hold no empty keyspace, the final FT
\* balances no zero and the final NFT balances no false entry
C37_EmittedClean ==
    Emitted
      => /\ ~HasEmptyKeyspace(out.stateFinal)
         /\ ~HasEmptyKeyspace(out.stateUpdates)
         /\ ~HasEmptyKeyspace(out.stateDeletes)
         /\ \A id \in DOMAIN out.ftBalancesResult : out.ftBalancesResult[id] # 0
         /\ \A id \in DOMAIN out.nftBalancesResult : out.nftBalancesResult[id]

\* the maps before the cleanup hold nothing the cleanup erases
NothingToErase(sc) ==
    /\ ~HasEmptyKeyspace(sc.contractState)
    /\ ~HasEmptyKeyspace(sc.contractStateUpdates)
    /\ ~HasEmptyKeyspace(sc.contractStateDeletes)
    /\ \A id \in DOMAIN sc.ftState : sc.ftState[id] # 0
    /\ \A id \in DOMAIN sc.nftState : sc.nftState[id]

\* the cleanup is defined only when it has nothing to erase: then what is
\* emitted is clean
CleanWhenNothingErased ==
    [][(phase = "finalize" /\ NothingToErase(stateContext) /\ phase' = "done")
          => C37_EmittedClean']_vars

\* the cleanup had something to erase and the process has ended in it
CleanupCrashed ==
    /\ phase = "crashed"
    /\ verified
    /\ ~NothingToErase(stateContext)

\* a call that deleted keys of two keyspaces that were not there has
\* returned 1: the cleanup has erased the keyspaces the deletes had made in
\* the final state and in the updates
C37_Witness ==
    /\ Emitted
    /\ args.lockScript = KvDelete(<<32>>, <<32>>) \o KvDelete(<<33>>, <<32>>) \o <<OP_1>>
    /\ out.stateFinal = EmptyMap
    /\ out.stateUpdates = EmptyMap
    /\ DOMAIN out.stateDeletes = {HexStr(<<32>>), HexStr(<<33>>)}

\* the cleanup has left an empty keyspace and the final validation has
\* thrown
EmptyKeyspaceLeftRejected ==
    /\ phase = "threw"
    /\ verified
    /\ HasEmptyKeyspace(stateContext.contractState)
    /\ thrown = "StateValidationStateFormatError*"

\* a balance has reached zero in a call that returned 1 and is not emitted
ZeroBalanceErased ==
    /\ Emitted
    /\ HexStr(Id1) \in DOMAIN out.ftBalancesUpdatesResult
    /\ out.ftBalancesUpdatesResult[HexStr(Id1)] = 0
    /\ HexStr(Id1) \notin DOMAIN out.ftBalancesResult
\* ---------------------------------------------------------------------------
\* the loop executes OP_RETURN (the count of opcodes allows it)
ExecutingReturn == ExecutingOpcode(OP_RETURN) /\ nOpCount < MAX_OPS_PER_SCRIPT

\* C38: OP_RETURN executed with an empty stack makes the evaluation succeed
\* at once, and no later opcode of the script is evaluated; executed with a
\* stack that is not empty it fails with the error OP_RETURN
C38_ReturnEndsEvaluation ==
    [][/\ (ExecutingReturn /\ Len(stack) = 0)
          => /\ phase' = "evalret"
             /\ serror' = "OK"
             /\ stack' = stack /\ altstack' = altstack /\ stateContext' = stateContext
       /\ (ExecutingReturn /\ Len(stack) > 0)
          => /\ phase' = "verified"
             /\ ~verified'
             /\ serror' = "OP_RETURN"
       /\ phase = "evalret" => (phase' # "eval" \/ which' # which)]_vars

\* the evaluation of the lock script has succeeded at an OP_RETURN that an
\* opcode follows
C38_Witness ==
    /\ phase = "evalret"
    /\ which = "lock"
    /\ pc > 0
    /\ GetScriptOp(currentScript, pc - 1).opcode = OP_RETURN
    /\ pc < Len(currentScript)
    /\ serror = "OK"
    /\ Len(stack) = 0

\* the verification of a lock script that ends at OP_RETURN: the stack is
\* empty, so VerifyScriptAvm reports EVAL_FALSE
ReturnThenEvalFalse ==
    /\ phase = "done"
    /\ args.lockScript = <<OP_RETURN, OP_1>>
    /\ result = 0
    /\ script_err = "EVAL_FALSE"
\* ---------------------------------------------------------------------------
\* bit j of a byte string read as a string of bits, the first bit of the
\* first byte being bit 0
BitAt(x, j) == BitOf(x[(j \div 8) + 1], 7 - (j % 8))

\* y is x moved n bits towards the first bit, zeros coming in at the end
IsLeftShift(y, x, n) ==
    /\ Len(y) = Len(x)
    /\ \A j \in 0..(8 * Len(x) - 1) :
           BitAt(y, j) = IF j + n < 8 * Len(x) THEN BitAt(x, j + n) ELSE 0

\* y is x moved n bits towards the last bit, zeros coming in at the start
IsRightShift(y, x, n) ==
    /\ Len(y) = Len(x)
    /\ \A j \in 0..(8 * Len(x) - 1) :
           BitAt(y, j) = IF j - n >= 0 THEN BitAt(x, j - n) ELSE 0

\* the count OP_LSHIFT and OP_RSHIFT read
ShiftCount == CScriptNum(stacktop(stack, -1), MAXIMUM_ITEM_SIZE)

\* the loop is at a shift by a count that is not negative
Shifting(opcode) ==
    /\ ExecutingOpcode(opcode)
    /\ nOpCount < MAX_OPS_PER_SCRIPT
    /\ Len(stack) >= 2
    /\ ShiftCount.exc = "none"
    /\ getSizeTypePre(ShiftCount.m_value)

\* C39: OP_LSHIFT and OP_RSHIFT by n >= 0 bits take the operand as a string
\* of bits, the first byte first: the result is as long as the operand, is
\* the logical shift with zeros coming in, and is all zero bytes when n is
\* at least the number of bits
C39_ShiftsAreLogical ==
    [][/\ Shifting(OP_LSHIFT)
          => /\ phase' = "eval"
             /\ Len(stack') = Len(stack) - 1
             /\ IsLeftShift(stacktop(stack', -1), stacktop(stack, -2),
                            getSizeType(ShiftCount.m_value))
       /\ Shifting(OP_RSHIFT)
          => /\ phase' = "eval"
             /\ Len(stack') = Len(stack) - 1
             /\ IsRightShift(stacktop(stack', -1), stacktop(stack, -2),
                             getSizeType(ShiftCount.m_value))
       /\ (Shifting(OP_LSHIFT) \/ Shifting(OP_RSHIFT))
            /\ getSizeType(ShiftCount.m_value) >= 8 * Len(stacktop(stack, -2))
          => stacktop(stack', -1) = [i \in 1..Len(stacktop(stack, -2)) |-> 0]]_vars

\* a5 ff moved 3 bits to the left is 2f f8: bits have crossed from the second
\* byte into the first
C39_Witness ==
    /\ phase = "eval"
    /\ args.lockScript = PushData(<<165, 255>>) \o push_int64(3) \o <<OP_LSHIFT>>
    /\ pc = Len(args.lockScript)
    /\ which = "lock"
    /\ stack = <<(<<47, 248>>)>>

\* a5 ff moved 11 bits to the right is 00 14
RightShiftAcrossBytes ==
    /\ phase = "eval"
    /\ args.lockScript = PushData(<<165, 255>>) \o push_int64(11) \o <<OP_RSHIFT>>
    /\ pc = Len(args.lockScript)
    /\ which = "lock"
    /\ stack = <<(<<0, 20>>)>>

\* a negative count is refused
NegativeShiftRefused ==
    /\ phase = "verified"
    /\ args.lockScript = PushData(<<165, 255>>) \o push_int64(0 - 1) \o <<OP_LSHIFT>>
    /\ serror = "INVALID_NUMBER_RANGE"
\* ---------------------------------------------------------------------------
\* the call has returned to its caller: the entry point with its result, or
\* VerifyScriptAvm, called without the entry point, with its verdict
Returned == phase = "done" \/ (phase = "verified" /\ ~args.call.hasContext)

\* the call has left through an exception no handler catches, or the
\* process has ended
Escaped == phase \in {"threw", "crashed"}

\* the call, not yet at its end, moves on: a step of it changes the place it
\* is at.  In a behaviour of Next these are the steps of the program itself,
\* every action but CallAgain, which is the caller's, and one of them can be
\* taken wherever the call has not returned or escaped.
Proceed ==
    /\ ~(Returned \/ Escaped)
    /\ phase' \in {"verify", "evalstart", "eval", "evalret", "verified", "finalize",
                   "done", "threw", "crashed"}
    /\ which' \in {"unlock", "lock"}
    /\ pc' \in 0..Len(currentScript)

\* what every step of the program changes: where the call is
progress == <<phase, which, pc>>

\* the program is sequential: a statement that can run does run
SpecLive == Init /\ [][Next]_vars /\ WF_progress(Proceed)

\* a call that has not come to its end has a next step
CanProceed ==
    \/ Returned \/ Escaped
    \/ phase \in {"entry", "verify", "evalstart", "eval", "verified"}
    \/ phase = "evalret" /\ which \in {"unlock", "lock"}
    \/ phase = "finalize" /\ cleanupStateAndBalances(stateContext) # {}

\* C40: every evaluation of a script ends and the verification always
\* produces a result: a call that has begun to evaluate a script returns to
\* its caller
C40_VerifyProducesResult == (phase = "evalstart") ~> Returned

\* a turn of the loop that does not leave EvalScript moves the program
\* counter forward, and never past the end of the script
IterationAdvances ==
    [][(phase = "eval" /\ pc < Len(currentScript) /\ phase' = "eval")
          => (pc' > pc /\ pc' <= Len(currentScript) /\ opCounter' = opCounter + 1)]_vars

\* a script of L bytes is gone through in at most L turns of the loop
IterationsBounded ==
    phase \in {"eval", "evalret"} => (opCounter <= pc /\ pc <= Len(currentScript))

\* every call comes to an end: it returns, or it leaves through an
\* exception, or the process ends
EveryCallEnds == (phase = "evalstart") ~> (Returned \/ Escaped)

\* a script has been gone through to its last byte in as many turns as it
\* has bytes
OneTurnPerByte ==
    /\ phase = "eval"
    /\ which = "lock"
    /\ pc = Len(currentScript)
    /\ opCounter = pc
    /\ pc >= 3
====
